---- MODULE Spec2Model ----
(***************************************************************************)
(* SCD Type 2 version chains and audit logging (audit-logger.ts, schema).  *)
(* One versioned table (staff), shift assignments with their status log,   *)
(* and the universal audit log.                                            *)
(***************************************************************************)
EXTENDS Integers, Sequences, FiniteSets, TLC

\* ---------------------------------------------------------------- bounds
MaxRows == 3         \* ids the store hands out (rows ever inserted)
MaxClock == 2        \* last instant of the wall clock
MaxAudit == 3        \* successful mutating calls (each appends one audit entry)

\* ---------------------------------------------------------------- values
NULL == 0                          \* SQL NULL of a uuid / timestamp column
Ids == 1..MaxRows
DomainFields == {"name", "email"}  \* two of staff's domain columns
FieldValues(f) == IF f = "name" THEN {"x", "y"} ELSE {"e"}
NoActor == "none"                  \* performedBy / performedByStaff omitted
\* <<performedBy, performedByStaff>> as the callers of these operations pass them
Actors == {<<"u1", NoActor>>}
Txs == {"t1", "t2"}                \* two concurrent request handlers
Absent == [absent |-> TRUE]        \* a json column left NULL
NoRow == [id |-> NULL]             \* findFirst found nothing / null result
tableName == "staff"

\* updates: Partial<T> over the domain columns
Updates ==
  UNION {{u \in [K -> {"x", "y", "e"}] : \A f \in K : u[f] \in FieldValues(f)} :
         K \in SUBSET DomainFields}
\* values of createWithAudit: the domain columns, version columns defaulted
Values == {u \in Updates : DOMAIN u = DomainFields}

VARIABLES
  tbl,        \* committed rows of the versioned table: id -> row
  auditLogs,  \* committed audit_logs rows, in insertion order
  clock,      \* last instant read by new Date() / defaultNow()
  nextId,     \* next uuid of defaultRandom()
  last,       \* the last call: its arguments, outcome and the store before it
  tx,         \* the open createNewVersion transactions, statement by statement
  commits,    \* transactions committed so far
  walk,       \* a getEntityHistory call in progress, iteration by iteration
  shiftAssignments,     \* committed rows of shift_assignments: id -> row
  shiftAssignmentLogs,  \* committed shift_assignment_logs rows, in insertion order
  call        \* a create/update/delete/status call in progress, statement by statement

assignmentVars == <<shiftAssignments, shiftAssignmentLogs>>
vars == <<tbl, auditLogs, clock, nextId, last, tx, commits, walk, assignmentVars, call>>

\* ---------------------------------------------------------------- helpers
getEntityType(name) ==
  CASE name = "organizations" -> "organization"
    [] name = "users" -> "user"
    [] name = "roles" -> "role"
    [] name = "staff" -> "staff"
    [] name = "shifts" -> "shift"
    [] name = "shift_assignments" -> "shift_assignment"
    [] OTHER -> "organization"

\* { ...row, ...u }
Overlay(row, u) ==
  [f \in DOMAIN row |-> IF f \in DOMAIN u THEN u[f] ELSE row[f]]

\* changedFields.forEach(field => oldValues[field] = current[field])
Restrict(row, keys) == [f \in keys |-> row[f]]

\* a row as the table's column defaults make it
DefaultRow(id, values, now) ==
  [id |-> id, name |-> values["name"], email |-> values["email"],
   previous_version_id |-> NULL, valid_from |-> now, valid_to |-> NULL,
   is_current |-> TRUE, created_at |-> now, updated_at |-> now]

\* findFirst({ where: eq(table.id, id) })
FindById(t, id) == IF id \in DOMAIN t THEN t[id] ELSE NoRow

\* faulty variant: the lookup forgets the isCurrent condition
FindCurrentById_AnyVersion(t, id) == IF id \in DOMAIN t THEN t[id] ELSE NoRow

\* findFirst({ where: and(eq(table.id, id), eq(table.isCurrent, true)) })
FindCurrentById(t, id) ==
  IF id \in DOMAIN t /\ t[id].is_current THEN t[id] ELSE NoRow

\* faulty variant: the retirement clears the flag and leaves valid_to open
RetireRow_FlagOnly(row, now) == [row EXCEPT !.is_current = FALSE, !.updated_at = now]

\* faulty variant: the retirement also detaches the row from its predecessor
RetireRow_Detaches(row, now) == [row EXCEPT !.valid_to = now, !.is_current = FALSE, !.updated_at = now, !.previous_version_id = NULL, !.created_at = now]

\* update(table).set({validTo: now, isCurrent: false, updatedAt: now}).where(eq(id))
RetireRow(row, now) ==
  [row EXCEPT !.valid_to = now, !.is_current = FALSE, !.updated_at = now]

\* faulty variant: the successor's created_at is reset to now
NewVersionRow_ResetCreatedAt(current, updates, id, currentId, now) ==
  [Overlay(current, updates) EXCEPT
     !.id = id,
     !.previous_version_id = currentId,
     !.valid_from = now,
     !.valid_to = NULL,
     !.is_current = TRUE,
     !.created_at = now,
     !.updated_at = now]

\* the values of the successor row
NewVersionRow(current, updates, id, currentId, now) ==
  [Overlay(current, updates) EXCEPT
     !.id = id,
     !.previous_version_id = currentId,
     !.valid_from = now,
     !.valid_to = NULL,
     !.is_current = TRUE,
     !.created_at = current.created_at,
     !.updated_at = now]

AuditEntry(etype, eid, action, by, byStaff, old, new, changed, now) ==
  [entity_type |-> etype, entity_id |-> eid, action |-> action,
   performed_by |-> by, performed_by_staff |-> byStaff,
   old_values |-> old, new_values |-> new, changed_fields |-> changed,
   created_at |-> now]

\* faulty variant: the audit entry names the retired row
NewVersionAudit_RetiredId(current, updates, newVersion, by, byStaff, now) ==
  LET changedFields == DOMAIN updates IN
  AuditEntry(getEntityType(tableName), current.id, "update", by, byStaff,
             Restrict(current, changedFields), Restrict(updates, changedFields),
             changedFields, now)

\* the audit entry createNewVersion appends
NewVersionAudit(current, updates, newVersion, by, byStaff, now) ==
  LET changedFields == DOMAIN updates IN
  AuditEntry(getEntityType(tableName), newVersion.id, "update", by, byStaff,
             Restrict(current, changedFields), Restrict(updates, changedFields),
             changedFields, now)

\* faulty variant: the audit entry logs the values passed in, not the row returned
CreateAudit_InputValues(created, by, byStaff, now) ==
  AuditEntry("staff", created.id, "create", by, byStaff,
             Absent, Restrict(created, DomainFields), Absent, now)

\* the audit entry createWithAudit appends: newValues is the row as returned
CreateAudit(created, by, byStaff, now) ==
  AuditEntry("staff", created.id, "create", by, byStaff, Absent, created, Absent, now)

\* faulty variant: the in-place update retires the row
UpdatedRow_Retires(row, updates, now) ==
  [Overlay(row, updates) EXCEPT !.updated_at = now, !.is_current = FALSE,
                                !.valid_to = now]

\* set({ ...updates, updatedAt: new Date() })
UpdatedRow(row, updates, now) == [Overlay(row, updates) EXCEPT !.updated_at = now]

\* the audit entry updateWithAudit appends
UpdateAudit(oldRecord, updates, id, by, byStaff, now) ==
  LET changedFields == DOMAIN updates IN
  AuditEntry("staff", id, "update", by, byStaff,
             Restrict(oldRecord, changedFields), Restrict(updates, changedFields),
             changedFields, now)

\* the audit entry deleteWithAudit appends: oldValues is the row as read
DeleteAudit(record, id, by, byStaff, now) ==
  AuditEntry("staff", id, "delete", by, byStaff, record, Absent, Absent, now)

Put(t, row) == [i \in DOMAIN t \cup {row.id} |-> IF i = row.id THEN row ELSE t[i]]
Remove(t, id) == [i \in DOMAIN t \ {id} |-> t[i]]

Call(op, id, updates, ok, err, ret, now) ==
  [op |-> op, id |-> id, updates |-> updates, ok |-> ok, err |-> err, ret |-> ret,
   now |-> now, preTbl |-> tbl, preAudit |-> auditLogs,
   preAssignments |-> shiftAssignments, preLogs |-> shiftAssignmentLogs]

Nows == {n \in {clock, clock + 1} : n <= MaxClock}

\* ---------------------------------------------------------------- state
\* no getEntityHistory call in progress
IdleWalk ==
  [pc |-> "idle", entityId |-> NULL, currentId |-> NULL, versions |-> <<>>,
   done |-> FALSE, more |-> 0]

\* a handler with no call in progress
IdleTx ==
  [pc |-> "idle", currentId |-> NULL, updates |-> <<>>, actor |-> <<NoActor, NoActor>>,
   current |-> NoRow, now |-> NULL, retired |-> FALSE, newVersion |-> NoRow,
   audit |-> NoRow, outcome |-> "none", faultAt |-> "none",
   startTbl |-> <<>>, startAudit |-> <<>>, startCommits |-> 0]

\* no statement-level call in progress
IdleCall == [pc |-> "idle"]

Init ==
  /\ tbl = <<>>
  /\ auditLogs = <<>>
  /\ clock = 1
  /\ nextId = 1
  /\ last = [op |-> "none"]
  /\ tx = [t \in Txs |-> IdleTx]
  /\ commits = 0
  /\ walk = IdleWalk
  /\ shiftAssignments = <<>>
  /\ shiftAssignmentLogs = <<>>
  /\ call = IdleCall

\* createWithAudit: insert, then the 'create' audit entry, one transaction
CreateWithAudit ==
  \E values \in Values, actor \in Actors, now \in Nows :
    /\ nextId <= MaxRows
    /\ Len(auditLogs) < MaxAudit
    /\ LET created == DefaultRow(nextId, values, now) IN
       /\ tbl' = Put(tbl, created)
       /\ auditLogs' = Append(auditLogs, CreateAudit(created, actor[1], actor[2], now))
       /\ last' = Call("createWithAudit", created.id, values, TRUE, "", created, now)
    /\ nextId' = nextId + 1
    /\ clock' = now
    /\ UNCHANGED <<tx, commits, walk, assignmentVars, call>>

\* createNewVersion, the whole transaction committed
CreateNewVersion ==
  \E currentId \in Ids, updates \in Updates,
     actor \in Actors, now \in Nows :
    LET current == FindCurrentById(tbl, currentId) IN
    /\ current # NoRow
    /\ nextId <= MaxRows
    /\ Len(auditLogs) < MaxAudit
    /\ LET newVersion == NewVersionRow(current, updates, nextId, currentId, now) IN
       /\ tbl' = Put(Put(tbl, RetireRow(tbl[currentId], now)), newVersion)
       /\ auditLogs' = Append(auditLogs,
            NewVersionAudit(current, updates, newVersion, actor[1], actor[2], now))
       /\ last' = Call("createNewVersion", currentId, updates, TRUE, "", newVersion, now)
    /\ nextId' = nextId + 1
    /\ clock' = now
    /\ UNCHANGED <<tx, commits, walk, assignmentVars, call>>

\* createNewVersion: no current row with that id
CreateNewVersionNotFound ==
  \E currentId \in Ids :
    /\ FindCurrentById(tbl, currentId) = NoRow
    /\ last' = Call("createNewVersion", currentId, <<>>, FALSE,
                    "Current version not found", NoRow, clock)
    /\ UNCHANGED <<tbl, auditLogs, clock, nextId, tx, commits, walk, assignmentVars, call>>

\* updateWithAudit: in-place update and its 'update' audit entry
UpdateWithAudit ==
  \E id \in Ids, updates \in Updates, actor \in Actors, now \in Nows :
    LET oldRecord == FindById(tbl, id) IN
    /\ oldRecord # NoRow
    /\ Len(auditLogs) < MaxAudit
    /\ LET updated == UpdatedRow(oldRecord, updates, now) IN
       /\ tbl' = Put(tbl, updated)
       /\ auditLogs' = Append(auditLogs,
            UpdateAudit(oldRecord, updates, id, actor[1], actor[2], now))
       /\ last' = Call("updateWithAudit", id, updates, TRUE, "", updated, now)
    /\ clock' = now
    /\ UNCHANGED <<nextId, tx, commits, walk, assignmentVars, call>>

\* rows whose previous_version_id references id (the table's self reference)
ReferencedBy(t, id) == {j \in DOMAIN t : t[j].previous_version_id = id}

\* deleteWithAudit: the 'delete' audit entry, then the physical delete
DeleteWithAudit ==
  \E id \in Ids, actor \in Actors, now \in Nows :
    LET record == FindById(tbl, id) IN
    /\ record # NoRow
    /\ ReferencedBy(tbl, id) = {}
    /\ Len(auditLogs) < MaxAudit
    /\ tbl' = Remove(tbl, id)
    /\ auditLogs' = Append(auditLogs, DeleteAudit(record, id, actor[1], actor[2], now))
    /\ last' = Call("deleteWithAudit", id, <<>>, TRUE, "", record, now)
    /\ clock' = now
    /\ UNCHANGED <<nextId, tx, commits, walk, assignmentVars, call>>

\* deleteWithAudit of a row a successor still references: the delete statement
\* violates the foreign key and the transaction rolls back
DeleteWithAuditReferenced ==
  \E id \in Ids :
    /\ FindById(tbl, id) # NoRow
    /\ ReferencedBy(tbl, id) # {}
    /\ last' = Call("deleteWithAudit", id, <<>>, FALSE, "foreign key violation",
                    NoRow, clock)
    /\ UNCHANGED <<tbl, auditLogs, clock, nextId, tx, commits, walk, assignmentVars, call>>

\* updateWithAudit / deleteWithAudit: no row with that id
RecordNotFound ==
  \E id \in Ids, op \in {"updateWithAudit", "deleteWithAudit"} :
    /\ FindById(tbl, id) = NoRow
    /\ last' = Call(op, id, <<>>, FALSE, "Record not found", NoRow, clock)
    /\ UNCHANGED <<tbl, auditLogs, clock, nextId, tx, commits, walk, assignmentVars, call>>

\* ---------------------------------------------------------------- reads
\* faulty variant: the loop leaves at a null predecessor before it pushes the row
HistoryStep_DropsRoot(t, w) ==
  IF w.currentId = NULL THEN [w EXCEPT !.done = TRUE]
  ELSE LET version == FindById(t, w.currentId) IN
       IF version = NoRow \/ version.previous_version_id = NULL
         THEN [w EXCEPT !.done = TRUE]
       ELSE [w EXCEPT !.currentId = version.previous_version_id,
                      !.versions = Append(w.versions, version)]

\* one iteration of the while loop of getEntityHistory; w is the loop's state
HistoryStep(t, w) ==
  IF w.currentId = NULL THEN [w EXCEPT !.done = TRUE]
  ELSE LET version == FindById(t, w.currentId) IN
       IF version = NoRow THEN [w EXCEPT !.done = TRUE]
       ELSE [w EXCEPT !.currentId = version.previous_version_id,
                      !.versions = Append(w.versions, version)]

HistoryStart(entityId) == [currentId |-> entityId, versions |-> <<>>, done |-> FALSE]

RECURSIVE HistoryLoop(_, _)
HistoryLoop(t, w) == IF w.done THEN w.versions ELSE HistoryLoop(t, HistoryStep(t, w))

\* faulty variant: the comparator sorts oldest first
SortCompare_Ascending(a, b) == a.valid_from - b.valid_from

\* the comparator of versions.sort: b.validFrom - a.validFrom
SortCompare(a, b) == b.valid_from - a.valid_from

RECURSIVE InsertSorted(_, _)
\* x put behind every element that does not compare after it (a stable sort)
InsertSorted(s, x) ==
  IF s = <<>> THEN <<x>>
  ELSE IF SortCompare(Head(s), x) <= 0 THEN <<Head(s)>> \o InsertSorted(Tail(s), x)
  ELSE <<x>> \o s

RECURSIVE SortVersions(_)
SortVersions(s) ==
  IF s = <<>> THEN <<>>
  ELSE InsertSorted(SortVersions(SubSeq(s, 1, Len(s) - 1)), s[Len(s)])

getEntityHistory(t, entityId) == SortVersions(HistoryLoop(t, HistoryStart(entityId)))

RECURSIVE getCurrentVersion(_, _)

\* faulty variant: the given row is returned without walking forward
getCurrentVersion_NoWalk(t, currentId) ==
  IF currentId = NULL THEN {NoRow} ELSE {FindById(t, currentId)}

\* faulty variant: the loop leaves at a row nothing references without keeping it
getCurrentVersion_NullOnDeadEnd(t, currentId) ==
  IF currentId = NULL THEN {NoRow}
  ELSE LET version == FindById(t, currentId) IN
       IF version = NoRow THEN {NoRow}
       ELSE IF version.is_current THEN {version}
       ELSE IF ReferencedBy(t, currentId) = {} THEN {NoRow}
       ELSE UNION {getCurrentVersion(t, newer) : newer \in ReferencedBy(t, currentId)}

\* the rows the loop of getCurrentVersion can return from currentId on; findFirst
\* on previousVersionId has no order, so any referencing row can be the newer one
getCurrentVersion(t, currentId) ==
  IF currentId = NULL THEN {NoRow}
  ELSE LET version == FindById(t, currentId) IN
       IF version = NoRow THEN {NoRow}
       ELSE IF version.is_current THEN {version}
       ELSE IF ReferencedBy(t, currentId) = {} THEN {version}
       ELSE UNION {getCurrentVersion(t, newer) : newer \in ReferencedBy(t, currentId)}

GetEntityHistory ==
  \E entityId \in Ids :
    /\ last' = Call("getEntityHistory", entityId, <<>>, TRUE, "",
                    getEntityHistory(tbl, entityId), clock)
    /\ UNCHANGED <<tbl, auditLogs, clock, nextId, tx, commits, walk, assignmentVars, call>>

GetCurrentVersion ==
  \E originalId \in Ids :
    \E current \in getCurrentVersion(tbl, originalId) :
      /\ last' = Call("getCurrentVersion", originalId, <<>>, TRUE, "", current, clock)
      /\ UNCHANGED <<tbl, auditLogs, clock, nextId, tx, commits, walk, assignmentVars, call>>

\* lineages grown by createWithAudit and createNewVersion only, and the reads
NextVersioning ==
  \/ CreateWithAudit
  \/ CreateNewVersion
  \/ CreateNewVersionNotFound
  \/ GetEntityHistory
  \/ GetCurrentVersion

SpecVersioning == Init /\ [][NextVersioning]_vars

Next ==
  \/ CreateWithAudit
  \/ CreateNewVersion
  \/ CreateNewVersionNotFound
  \/ UpdateWithAudit
  \/ DeleteWithAudit
  \/ DeleteWithAuditReferenced
  \/ RecordNotFound

Spec == Init /\ [][Next]_vars

\* ---------------------------------------------------------------- transactions
\* createNewVersion statement by statement: two handlers, each taking one call
\* inside db.transaction at read-committed isolation. A handler's writes are buffered
\* in its tx record until COMMIT; an UPDATE holds the row's lock until then.

\* faulty variant: the retirement is issued on db instead of tx (autocommitted)
StatementHandle_RetireOnDb(statement) == IF statement = "retire" THEN "db" ELSE "tx"

\* faulty variant: the audit insert goes through logAuditEvent, which uses db
StatementHandle_AuditOnDb(statement) == IF statement = "audit" THEN "db" ELSE "tx"

\* the handle each statement of a transaction callback is issued on
StatementHandle(statement) == "tx"

Active(t) == tx[t].pc \notin {"idle", "done"}

\* another open transaction has updated the row and not yet ended
LockedByOther(t, id) ==
  \E o \in Txs \ {t} : Active(o) /\ tx[o].retired /\ tx[o].currentId = id

\* the call is over: its locals are gone, its outcome and what it started from stay
Ended(h, outcome) ==
  [IdleTx EXCEPT !.pc = "done", !.outcome = outcome, !.currentId = h.currentId,
                 !.startTbl = h.startTbl, !.startAudit = h.startAudit,
                 !.startCommits = h.startCommits]

InitTx ==
  \E values \in Values :
    LET created == DefaultRow(1, values, 1) IN
    /\ tbl = Put(<<>>, created)
    /\ auditLogs = <<AuditEntry("staff", 1, "create", NoActor, NoActor,
                                Absent, created, Absent, 1)>>
    /\ clock = 1
    /\ nextId = 2
    /\ last = [op |-> "none"]
    /\ tx = [t \in Txs |-> IdleTx]
    /\ commits = 0
    /\ walk = IdleWalk
    /\ shiftAssignments = <<>>
    /\ shiftAssignmentLogs = <<>>
    /\ call = IdleCall

\* a handler receives a createNewVersion call and opens its transaction
TxBegin(t) ==
  \E currentId \in Ids, updates \in Updates, actor \in Actors :
    /\ tx[t].pc = "idle"
    /\ tx' = [tx EXCEPT ![t] =
         [IdleTx EXCEPT !.pc = "read", !.currentId = currentId, !.updates = updates,
                        !.actor = actor, !.startTbl = tbl, !.startAudit = auditLogs,
                        !.startCommits = commits]]
    /\ UNCHANGED <<tbl, auditLogs, clock, nextId, last, commits, walk, assignmentVars, call>>

\* 1. findFirst of the current version (committed rows), then now = new Date()
TxRead(t) ==
  \E now \in Nows :
    /\ tx[t].pc = "read"
    /\ FindCurrentById(tbl, tx[t].currentId) # NoRow
    /\ tx' = [tx EXCEPT ![t].pc = "retire",
                        ![t].current = FindCurrentById(tbl, tx[t].currentId),
                        ![t].now = now]
    /\ clock' = now
    /\ UNCHANGED <<tbl, auditLogs, nextId, last, commits, walk, assignmentVars, call>>

\* 1. nothing found: throw, the transaction rolls back with nothing written
TxReadNotFound(t) ==
  /\ tx[t].pc = "read"
  /\ FindCurrentById(tbl, tx[t].currentId) = NoRow
  /\ tx' = [tx EXCEPT ![t] = Ended(tx[t], "not_found")]
  /\ UNCHANGED <<tbl, auditLogs, clock, nextId, last, commits, walk, assignmentVars, call>>

\* 2. UPDATE ... WHERE id = currentId: waits for the row's lock, then applies to
\* the row as last committed (the WHERE clause names the id only)
TxRetire(t) ==
  /\ tx[t].pc = "retire"
  /\ ~LockedByOther(t, tx[t].currentId)
  /\ IF StatementHandle("retire") = "tx"
       THEN /\ tx' = [tx EXCEPT ![t].pc = "insert", ![t].retired = TRUE]
            /\ UNCHANGED tbl
       ELSE /\ tx' = [tx EXCEPT ![t].pc = "insert"]
            /\ tbl' = Put(tbl, RetireRow(tbl[tx[t].currentId], tx[t].now))
  /\ UNCHANGED <<auditLogs, clock, nextId, last, commits, walk, assignmentVars, call>>

\* 3. INSERT of the successor row built from the row read in step 1
TxInsert(t) ==
  LET newVersion == NewVersionRow(tx[t].current, tx[t].updates, nextId,
                                  tx[t].currentId, tx[t].now) IN
  /\ tx[t].pc = "insert"
  /\ tx' = [tx EXCEPT ![t].pc = "audit", ![t].newVersion = newVersion]
  /\ IF StatementHandle("insert") = "tx"
       THEN UNCHANGED tbl
       ELSE tbl' = Put(tbl, newVersion)
  /\ nextId' = nextId + 1
  /\ UNCHANGED <<auditLogs, clock, last, commits, walk, assignmentVars, call>>

\* 4. INSERT of the audit entry
TxAudit(t) ==
  LET entry == NewVersionAudit(tx[t].current, tx[t].updates, tx[t].newVersion,
                               tx[t].actor[1], tx[t].actor[2], tx[t].now) IN
  /\ tx[t].pc = "audit"
  /\ tx' = [tx EXCEPT ![t].pc = "commit", ![t].audit = entry]
  /\ IF StatementHandle("audit") = "tx"
       THEN UNCHANGED auditLogs
       ELSE auditLogs' = Append(auditLogs, entry)
  /\ UNCHANGED <<tbl, clock, nextId, last, commits, walk, assignmentVars, call>>

\* the callback returned: COMMIT makes the buffered writes visible at once
TxCommit(t) ==
  LET retired == IF tx[t].retired
                   THEN Put(tbl, RetireRow(tbl[tx[t].currentId], tx[t].now))
                   ELSE tbl IN
  /\ tx[t].pc = "commit"
  /\ tbl' = IF StatementHandle("insert") = "tx"
              THEN Put(retired, tx[t].newVersion) ELSE retired
  /\ auditLogs' = IF StatementHandle("audit") = "tx"
                    THEN Append(auditLogs, tx[t].audit) ELSE auditLogs
  /\ commits' = commits + 1
  /\ tx' = [tx EXCEPT ![t] = Ended(tx[t], "committed")]
  /\ UNCHANGED <<clock, nextId, last, walk, assignmentVars, call>>

\* the store fails the insert of the new row or the audit insert: the callback
\* throws and db.transaction rolls back what was issued on tx
TxFault(t) ==
  /\ tx[t].pc \in {"insert", "audit"}
  /\ tx' = [tx EXCEPT ![t] = [Ended(tx[t], "failed") EXCEPT !.faultAt = tx[t].pc]]
  /\ UNCHANGED <<tbl, auditLogs, clock, nextId, last, commits, walk, assignmentVars, call>>

NextTx ==
  \E t \in Txs :
    \/ TxBegin(t)
    \/ TxRead(t)
    \/ TxReadNotFound(t)
    \/ TxRetire(t)
    \/ TxInsert(t)
    \/ TxAudit(t)
    \/ TxCommit(t)
    \/ TxFault(t)

SpecTx == InitTx /\ [][NextTx]_vars

\* ---------------------------------------------------------------- history walk
\* getEntityHistory iteration by iteration, over any store: every subset of the
\* ids holds a row and every previous_version_id is null or any id, so the
\* edges can dangle, branch and form cycles.
MaxVisit == MaxRows + 1    \* entries of versions the model records

StoreWith(prev) ==
  [i \in DOMAIN prev |->
     [DefaultRow(i, [name |-> "x", email |-> "e"], 1)
        EXCEPT !.previous_version_id = prev[i]]]

InitHistory ==
  /\ \E S \in SUBSET Ids : \E prev \in [S -> {NULL} \cup Ids] : tbl = StoreWith(prev)
  /\ auditLogs = <<>>
  /\ clock = 1
  /\ nextId = MaxRows + 1
  /\ last = [op |-> "none"]
  /\ tx = [t \in Txs |-> IdleTx]
  /\ commits = 0
  /\ walk = IdleWalk
  /\ shiftAssignments = <<>>
  /\ shiftAssignmentLogs = <<>>
  /\ call = IdleCall

\* versions as far as the model records it; of the entries pushed beyond those,
\* walk.more keeps the parity
Recorded(versions) ==
  IF Len(versions) > MaxVisit THEN SubSeq(versions, 1, MaxVisit) ELSE versions

\* the call: versions = [], currentId = entityId
HistoryBegin ==
  \E entityId \in Ids :
    /\ walk.pc = "idle"
    /\ walk' = [pc |-> "loop", entityId |-> entityId, more |-> 0]
                 @@ HistoryStart(entityId)
    /\ UNCHANGED <<tbl, auditLogs, clock, nextId, last, tx, commits, assignmentVars, call>>

\* one iteration of the while loop; leaving the loop, the sort and the return
HistoryIterate ==
  LET w == HistoryStep(tbl, walk) IN
  /\ walk.pc = "loop"
  /\ walk' = IF w.done
               THEN [w EXCEPT !.pc = "done", !.versions = SortVersions(w.versions)]
               ELSE IF Len(w.versions) > MaxVisit
                      THEN [w EXCEPT !.versions = Recorded(w.versions),
                                     !.more = 1 - walk.more]
                      ELSE w
  /\ UNCHANGED <<tbl, auditLogs, clock, nextId, last, tx, commits, assignmentVars, call>>

NextHistory == HistoryBegin \/ HistoryIterate

\* the loop runs on whenever the store has answered its query
SpecHistory == InitHistory /\ [][NextHistory]_vars /\ WF_vars(HistoryIterate)

\* ---------------------------------------------------------------- lookups
\* getCurrentVersion over any store whose successors have later ids than their
\* predecessors: rows can be missing, retired with no successor, current with
\* one, and several rows can reference the same predecessor.
InitStores ==
  /\ \E S \in SUBSET Ids : \E prev \in [S -> {NULL} \cup Ids], current \in [S -> BOOLEAN] :
       /\ \A i \in S : prev[i] < i
       /\ tbl = [i \in S |->
            [StoreWith(prev)[i] EXCEPT !.is_current = current[i],
                                       !.valid_to = IF current[i] THEN NULL ELSE 1]]
  /\ auditLogs = <<>>
  /\ clock = 1
  /\ nextId = MaxRows + 1
  /\ last = [op |-> "none"]
  /\ tx = [t \in Txs |-> IdleTx]
  /\ commits = 0
  /\ walk = IdleWalk
  /\ shiftAssignments = <<>>
  /\ shiftAssignmentLogs = <<>>
  /\ call = IdleCall

SpecLookup == InitStores /\ [][GetCurrentVersion]_vars

\* ---------------------------------------------------------------- assignments
ResponseStatuses == {"pending", "accepted", "declined"}   \* responseStatusEnum
NoMessage == "none"
NoOrganization == "none"           \* organizationId: null
NoStatus == "null"                 \* previous_status left NULL                \* message omitted / response_message NULL
Messages == {"Available!", NoMessage}
\* <<changedBy, changedByStaff>> as callers pass them: a manager, a staff member, both
ChangedBys == {<<"u1", NoActor>>, <<NoActor, "s1">>, <<"u1", "s1">>}

\* a shift_assignments row as the table's column defaults make it
DefaultAssignment(id, now) ==
  [id |-> id, response_status |-> "pending", response_message |-> NoMessage,
   responded_at |-> NULL, created_at |-> now, updated_at |-> now]

\* faulty variant: the self-transition check is gone
IsSelfTransition_Never(previousStatus, newStatus) == FALSE

\* if (previousStatus === newStatus) return currentAssignment
IsSelfTransition(previousStatus, newStatus) == previousStatus = newStatus

\* faulty variant: a transition back to pending leaves the status as it was
SetStatus_NoReinvite(row, newStatus, message, now) ==
  [row EXCEPT
     !.response_status = IF newStatus = "pending" THEN @ ELSE newStatus,
     !.response_message = IF message = NoMessage THEN @ ELSE message,
     !.responded_at = now,
     !.updated_at = now]

\* 1. update(shiftAssignments).set({...}); set skips a key whose value is undefined
SetStatus(row, newStatus, message, now) ==
  [row EXCEPT
     !.response_status = newStatus,
     !.response_message = IF message = NoMessage THEN @ ELSE message,
     !.responded_at = now,
     !.updated_at = now]

\* faulty variant: the log row records the new status as the previous one
StatusLogEntry_NoPrevious(assignmentId, previousStatus, newStatus, by, byStaff, message, now) ==
  [assignment_id |-> assignmentId, previous_status |-> newStatus,
   new_status |-> newStatus, changed_by |-> by, changed_by_staff |-> byStaff,
   message |-> message, created_at |-> now]

\* faulty variant: the log row leaves previous_status null
StatusLogEntry_NullPrevious(assignmentId, previousStatus, newStatus, by, byStaff, message, now) ==
  [assignment_id |-> assignmentId, previous_status |-> NoStatus,
   new_status |-> newStatus, changed_by |-> by, changed_by_staff |-> byStaff,
   message |-> message, created_at |-> now]

\* 2. the shift_assignment_logs row
StatusLogEntry(assignmentId, previousStatus, newStatus, by, byStaff, message, now) ==
  [assignment_id |-> assignmentId, previous_status |-> previousStatus,
   new_status |-> newStatus, changed_by |-> by, changed_by_staff |-> byStaff,
   message |-> message, created_at |-> now]

\* faulty variant: the audit entry drops the staff actor
StatusAudit_NoStaff(assignmentId, previousStatus, newStatus, by, byStaff, now) ==
  AuditEntry("shift_assignment", assignmentId, "status_change", by, NoActor,
             [response_status |-> previousStatus], [response_status |-> newStatus],
             {"response_status"}, now)
    @@ [organization_id |-> NoOrganization]

\* faulty variant: the status change is logged as a plain update
StatusAudit_AsUpdate(assignmentId, previousStatus, newStatus, by, byStaff, now) ==
  AuditEntry("shift_assignment", assignmentId, "update", by, byStaff,
             [response_status |-> previousStatus], [response_status |-> newStatus],
             {"response_status"}, now)
    @@ [organization_id |-> NoOrganization]

\* faulty variant: the entry is scoped to the organization of the shift
StatusAudit_ShiftOrganization(assignmentId, previousStatus, newStatus, by, byStaff, now) ==
  AuditEntry("shift_assignment", assignmentId, "status_change", by, byStaff,
             [response_status |-> previousStatus], [response_status |-> newStatus],
             {"response_status"}, now)
    @@ [organization_id |-> "o1"]

\* 3. the audit_logs row
StatusAudit(assignmentId, previousStatus, newStatus, by, byStaff, now) ==
  AuditEntry("shift_assignment", assignmentId, "status_change", by, byStaff,
             [response_status |-> previousStatus], [response_status |-> newStatus],
             {"response_status"}, now)
    @@ [organization_id |-> NoOrganization]

\* the arguments of an updateAssignmentStatus call
StatusArgs(newStatus, message, by) ==
  [newStatus |-> newStatus, message |-> message, changedBy |-> by[1],
   changedByStaff |-> by[2]]

\* createWithAudit on shift_assignments
CreateAssignmentWithAudit ==
  \E actor \in Actors, now \in Nows :
    /\ nextId <= MaxRows
    /\ Len(auditLogs) < MaxAudit
    /\ LET created == DefaultAssignment(nextId, now) IN
       /\ shiftAssignments' = Put(shiftAssignments, created)
       /\ auditLogs' = Append(auditLogs,
            AuditEntry("shift_assignment", created.id, "create", actor[1], actor[2],
                       Absent, created, Absent, now))
       /\ last' = Call("createWithAudit", created.id, <<>>, TRUE, "", created, now)
    /\ nextId' = nextId + 1
    /\ clock' = now
    /\ UNCHANGED <<tbl, shiftAssignmentLogs, tx, commits, walk, call>>

\* updateAssignmentStatus to another status: the row, its log row, its audit entry
UpdateAssignmentStatus ==
  \E assignmentId \in Ids, newStatus \in ResponseStatuses, message \in Messages,
     by \in ChangedBys, now \in Nows :
    LET currentAssignment == FindById(shiftAssignments, assignmentId) IN
    /\ currentAssignment # NoRow
    /\ ~IsSelfTransition(currentAssignment.response_status, newStatus)
    /\ Len(auditLogs) < MaxAudit
    /\ LET previousStatus == currentAssignment.response_status
           updatedAssignment == SetStatus(currentAssignment, newStatus, message, now)
       IN /\ shiftAssignments' = Put(shiftAssignments, updatedAssignment)
          /\ shiftAssignmentLogs' = Append(shiftAssignmentLogs,
               StatusLogEntry(assignmentId, previousStatus, newStatus,
                              by[1], by[2], message, now))
          /\ auditLogs' = Append(auditLogs,
               StatusAudit(assignmentId, previousStatus, newStatus, by[1], by[2], now))
          /\ last' = Call("updateAssignmentStatus", assignmentId,
                          StatusArgs(newStatus, message, by), TRUE, "",
                          updatedAssignment, now)
    /\ clock' = now
    /\ UNCHANGED <<tbl, nextId, tx, commits, walk, call>>

\* updateAssignmentStatus to the status the row has: returned as read
UpdateAssignmentStatusUnchanged ==
  \E assignmentId \in Ids, newStatus \in ResponseStatuses :
    LET currentAssignment == FindById(shiftAssignments, assignmentId) IN
    /\ currentAssignment # NoRow
    /\ IsSelfTransition(currentAssignment.response_status, newStatus)
    /\ last' = Call("updateAssignmentStatus", assignmentId,
                    StatusArgs(newStatus, NoMessage, <<NoActor, "s1">>), TRUE, "",
                    currentAssignment, clock)
    /\ UNCHANGED <<tbl, auditLogs, clock, nextId, tx, commits, walk,
                   assignmentVars, call>>

\* updateAssignmentStatus: no assignment with that id
AssignmentNotFound ==
  \E assignmentId \in Ids :
    /\ FindById(shiftAssignments, assignmentId) = NoRow
    /\ last' = Call("updateAssignmentStatus", assignmentId, <<>>, FALSE,
                    "Assignment not found", NoRow, clock)
    /\ UNCHANGED <<tbl, auditLogs, clock, nextId, tx, commits, walk,
                   assignmentVars, call>>

\* rows of shift_assignment_logs left by ON DELETE CASCADE on assignment_id
CascadeLogs(logs, assignmentId) ==
  SelectSeq(logs, LAMBDA l : l.assignment_id # assignmentId)

\* deleteWithAudit on shift_assignments
DeleteAssignmentWithAudit ==
  \E id \in Ids, actor \in Actors, now \in Nows :
    LET record == FindById(shiftAssignments, id) IN
    /\ record # NoRow
    /\ Len(auditLogs) < MaxAudit
    /\ shiftAssignments' = Remove(shiftAssignments, id)
    /\ shiftAssignmentLogs' = CascadeLogs(shiftAssignmentLogs, id)
    /\ auditLogs' = Append(auditLogs,
         AuditEntry("shift_assignment", id, "delete", actor[1], actor[2],
                    record, Absent, Absent, now))
    /\ last' = Call("deleteWithAudit", id, <<>>, TRUE, "", record, now)
    /\ clock' = now
    /\ UNCHANGED <<tbl, nextId, tx, commits, walk, call>>

NextAssignment ==
  \/ CreateAssignmentWithAudit
  \/ UpdateAssignmentStatus
  \/ UpdateAssignmentStatusUnchanged
  \/ AssignmentNotFound
  \/ DeleteAssignmentWithAudit

SpecAssignment == Init /\ [][NextAssignment]_vars

\* ---------------------------------------------------------------- statistics
\* faulty variant: a row counts for staff whenever no user changed it
getAssignmentStatistics_StaffByDefault(logs, shiftId) ==
  LET rows == {k \in DOMAIN logs : logs[k].assignment_id = shiftId} IN
  [totalChanges |-> Cardinality(rows),
   acceptedCount |-> Cardinality({k \in rows : logs[k].new_status = "accepted"}),
   declinedCount |-> Cardinality({k \in rows : logs[k].new_status = "declined"}),
   changedByManagerCount |-> Cardinality({k \in rows : logs[k].changed_by # NoActor}),
   changedByStaffCount |-> Cardinality({k \in rows : logs[k].changed_by = NoActor})]

\* getAssignmentStatistics: the log rows whose assignment_id is the argument,
\* and the five counts over them
getAssignmentStatistics(logs, shiftId) ==
  LET rows == {k \in DOMAIN logs : logs[k].assignment_id = shiftId} IN
  [totalChanges |-> Cardinality(rows),
   acceptedCount |-> Cardinality({k \in rows : logs[k].new_status = "accepted"}),
   declinedCount |-> Cardinality({k \in rows : logs[k].new_status = "declined"}),
   changedByManagerCount |-> Cardinality({k \in rows : logs[k].changed_by # NoActor}),
   changedByStaffCount |-> Cardinality({k \in rows : logs[k].changed_by_staff # NoActor})]

GetAssignmentStatistics ==
  \E shiftId \in Ids :
    /\ last' = Call("getAssignmentStatistics", shiftId, <<>>, TRUE, "",
                    getAssignmentStatistics(shiftAssignmentLogs, shiftId), clock)
    /\ UNCHANGED <<tbl, auditLogs, clock, nextId, tx, commits, walk,
                   assignmentVars, call>>

\* assignments created and answered, and their statistics read
NextStatistics ==
  \/ CreateAssignmentWithAudit
  \/ UpdateAssignmentStatus
  \/ UpdateAssignmentStatusUnchanged
  \/ AssignmentNotFound
  \/ GetAssignmentStatistics

SpecStatistics == Init /\ [][NextStatistics]_vars

\* ---------------------------------------------------------------- ledger
\* every operation that writes the audit log, one call after another, from a store
\* in which createWithAudit has put one staff row and one assignment
InitLedger ==
  LET member == DefaultRow(1, [name |-> "x", email |-> "e"], 1)
      \* the assignment invites staff member 1 (staff_id references staff.id)
      created == DefaultAssignment(2, 1) @@ [staff_id |-> 1]
  IN
  /\ tbl = Put(<<>>, member)
  /\ auditLogs = <<AuditEntry("staff", 1, "create", "u1", NoActor,
                              Absent, member, Absent, 1),
                   AuditEntry("shift_assignment", 2, "create", "u1", NoActor,
                              Absent, created, Absent, 1)>>
  /\ clock = 1
  /\ nextId = 3
  /\ last = [op |-> "none"]
  /\ tx = [t \in Txs |-> IdleTx]
  /\ commits = 0
  /\ walk = IdleWalk
  /\ shiftAssignments = Put(<<>>, created)
  /\ shiftAssignmentLogs = <<>>
  /\ call = IdleCall

NextLedger ==
  \/ CreateWithAudit
  \/ CreateNewVersion
  \/ CreateNewVersionNotFound
  \/ UpdateWithAudit
  \/ DeleteWithAudit
  \/ DeleteWithAuditReferenced
  \/ RecordNotFound
  \/ UpdateAssignmentStatus
  \/ UpdateAssignmentStatusUnchanged
  \/ AssignmentNotFound

SpecLedger == InitLedger /\ [][NextLedger]_vars

\* ---------------------------------------------------------------- calls
\* createWithAudit, updateWithAudit, deleteWithAudit (on staff) and
\* updateAssignmentStatus statement by statement, one call at a time. Inside
\* db.transaction the handler works on its own view of the store (the committed
\* rows and its writes); COMMIT publishes the view, a throw discards it.

\* updates of updateWithAudit: one column, every domain column, a version column
\* (Partial<T> can name one as well)
CallUpdates == {[name |-> "y"], [name |-> "x", email |-> "e"], [is_current |-> FALSE]}
\* <<changedBy, changedByStaff>> and message of the status calls followed here
CallChangedBys == {<<NoActor, "s1">>}
CallMessages == {"Available!"}

\* faulty variant: deleteWithAudit deletes first and logs afterwards
Statements_DeleteFirst(op) ==
  CASE op = "createWithAudit" -> <<"insert", "audit">>
    [] op = "updateWithAudit" -> <<"read", "update", "audit">>
    [] op = "deleteWithAudit" -> <<"read", "delete", "audit">>
    [] op = "updateAssignmentStatus" -> <<"read", "update", "log", "audit">>

\* faulty variant: deleteWithAudit logs before it looks the row up
Statements_AuditFirst(op) ==
  CASE op = "createWithAudit" -> <<"insert", "audit">>
    [] op = "updateWithAudit" -> <<"read", "update", "audit">>
    [] op = "deleteWithAudit" -> <<"audit", "read", "delete">>
    [] op = "updateAssignmentStatus" -> <<"read", "update", "log", "audit">>

\* the statements of each operation in the order the code issues them
Statements(op) ==
  CASE op = "createWithAudit" -> <<"insert", "audit">>
    [] op = "updateWithAudit" -> <<"read", "update", "audit">>
    [] op = "deleteWithAudit" -> <<"read", "audit", "delete">>
    [] op = "updateAssignmentStatus" -> <<"read", "update", "log", "audit">>

\* what follows statement st: the next statement, or the callback's return
After(op, st) ==
  LET ss == Statements(op)
      i == CHOOSE k \in 1..Len(ss) : ss[k] = st
  IN IF i = Len(ss) THEN "commit" ELSE ss[i + 1]

\* a call as it starts: updateAssignmentStatus reads before it opens a transaction
NewCall(op, id, args, actor, now) ==
  [pc |-> Statements(op)[1], op |-> op, id |-> id, args |-> args, actor |-> actor,
   now |-> now, transaction |-> op # "updateAssignmentStatus",
   record |-> NoRow, result |-> NoRow, issued |-> <<>>,
   outcome |-> "none", err |-> "", faultAt |-> "none",
   wTbl |-> tbl, wAudit |-> auditLogs,
   wAssignments |-> shiftAssignments, wLogs |-> shiftAssignmentLogs,
   startTbl |-> tbl, startAudit |-> auditLogs,
   startAssignments |-> shiftAssignments, startLogs |-> shiftAssignmentLogs]

\* the call is over: the transaction's view is gone
EndCall(c, outcome, err, faultAt) ==
  [c EXCEPT !.pc = "done", !.outcome = outcome, !.err = err, !.faultAt = faultAt,
            !.wTbl = <<>>, !.wAudit = <<>>, !.wAssignments = <<>>, !.wLogs = <<>>]

\* statement st was issued; issued keeps the statements and their handles
Issue(c, st) ==
  [c EXCEPT !.pc = After(c.op, st),
            !.issued = Append(@, <<st, StatementHandle(st)>>)]

\* the committed store after statement st: written at once when st is issued on db
Through(st, committed, written) ==
  IF StatementHandle(st) = "db" THEN written ELSE committed

\* the call would write nothing: no such assignment, or a self-transition
WritesNothing(id, newStatus) ==
  IF FindById(shiftAssignments, id) = NoRow THEN TRUE
  ELSE IsSelfTransition(shiftAssignments[id].response_status, newStatus)

\* a handler receives a call; the three wrappers open their transaction at once
CallBegin ==
  /\ call.pc \in {"idle", "done"}
  /\ \/ \E values \in Values, actor \in Actors, now \in Nows :
          /\ Len(auditLogs) < MaxAudit
          /\ nextId <= MaxRows
          /\ call' = NewCall("createWithAudit", NULL, values, actor, now)
          /\ clock' = now
     \/ \E id \in Ids, updates \in CallUpdates, actor \in Actors :
          /\ Len(auditLogs) < MaxAudit
          /\ call' = NewCall("updateWithAudit", id, updates, actor, NULL)
          /\ UNCHANGED clock
     \/ \E id \in Ids, actor \in Actors :
          /\ Len(auditLogs) < MaxAudit
          /\ call' = NewCall("deleteWithAudit", id, <<>>, actor, NULL)
          /\ UNCHANGED clock
     \/ \E id \in Ids, newStatus \in ResponseStatuses, message \in CallMessages,
           by \in CallChangedBys :
          /\ Len(auditLogs) < MaxAudit \/ WritesNothing(id, newStatus)
          /\ call' = NewCall("updateAssignmentStatus", id,
                             StatusArgs(newStatus, message, by), by, NULL)
          /\ UNCHANGED clock
  /\ UNCHANGED <<tbl, auditLogs, nextId, last, tx, commits, walk, assignmentVars>>

\* the row the first query of the call finds
CallRecord ==
  IF call.op = "updateAssignmentStatus"
    THEN FindById(shiftAssignments, call.id)
    ELSE FindById(call.wTbl, call.id)

\* findFirst found the row and the call goes on to its writes, which take the
\* time; updateAssignmentStatus opens its transaction here
CallRead ==
  /\ call.pc = "read"
  /\ CallRecord # NoRow
  /\ call.op = "updateAssignmentStatus" =>
       ~IsSelfTransition(CallRecord.response_status, call.args.newStatus)
  /\ \E now \in Nows :
       /\ call' = [call EXCEPT !.pc = After(call.op, "read"), !.record = CallRecord,
                               !.transaction = TRUE, !.now = now]
       /\ clock' = now
  /\ UNCHANGED <<tbl, auditLogs, nextId, last, tx, commits, walk, assignmentVars>>

\* findFirst found nothing: the call throws
CallReadNotFound ==
  /\ call.pc = "read"
  /\ CallRecord = NoRow
  /\ call' = EndCall(call, "failed",
                     IF call.op = "updateAssignmentStatus"
                       THEN "Assignment not found" ELSE "Record not found",
                     "none")
  /\ UNCHANGED <<tbl, auditLogs, clock, nextId, last, tx, commits, walk,
                 assignmentVars>>

\* updateAssignmentStatus to the status the row has: the row is returned as read
CallUnchanged ==
  /\ call.pc = "read"
  /\ call.op = "updateAssignmentStatus"
  /\ CallRecord # NoRow
  /\ IsSelfTransition(CallRecord.response_status, call.args.newStatus)
  /\ call' = [EndCall(call, "unchanged", "", "none") EXCEPT !.result = CallRecord]
  /\ UNCHANGED <<tbl, auditLogs, clock, nextId, last, tx, commits, walk,
                 assignmentVars>>

\* createWithAudit: insert(table).values(values).returning()
CallInsert ==
  LET created == DefaultRow(nextId, call.args, call.now) IN
  /\ call.pc = "insert"
  /\ call' = [Issue(call, "insert") EXCEPT !.wTbl = Put(@, created),
                                           !.result = created]
  /\ tbl' = Through("insert", tbl, Put(tbl, created))
  /\ nextId' = nextId + 1
  /\ UNCHANGED <<auditLogs, clock, last, tx, commits, walk, assignmentVars>>

\* updateWithAudit / updateAssignmentStatus: update(...).set(...).returning()
CallUpdate ==
  /\ call.pc = "update"
  /\ IF call.op = "updateWithAudit"
       THEN LET updated == UpdatedRow(call.wTbl[call.id], call.args, call.now) IN
            /\ call' = [Issue(call, "update") EXCEPT !.wTbl = Put(@, updated),
                                                     !.result = updated]
            /\ tbl' = Through("update", tbl, Put(tbl, updated))
            /\ UNCHANGED shiftAssignments
       ELSE LET updated == SetStatus(call.wAssignments[call.id], call.args.newStatus,
                                     call.args.message, call.now) IN
            /\ call' = [Issue(call, "update") EXCEPT !.wAssignments = Put(@, updated),
                                                     !.result = updated]
            /\ shiftAssignments' =
                 Through("update", shiftAssignments, Put(shiftAssignments, updated))
            /\ UNCHANGED tbl
  /\ UNCHANGED <<auditLogs, clock, nextId, last, tx, commits, walk,
                 shiftAssignmentLogs>>

\* updateAssignmentStatus: insert(shiftAssignmentLogs)
CallLog ==
  LET entry == StatusLogEntry(call.id, call.record.response_status,
                              call.args.newStatus, call.args.changedBy,
                              call.args.changedByStaff, call.args.message, call.now) IN
  /\ call.pc = "log"
  /\ call' = [Issue(call, "log") EXCEPT !.wLogs = Append(@, entry)]
  /\ shiftAssignmentLogs' =
       Through("log", shiftAssignmentLogs, Append(shiftAssignmentLogs, entry))
  /\ UNCHANGED <<tbl, auditLogs, clock, nextId, last, tx, commits, walk,
                 shiftAssignments>>

\* the audit entry of the call in progress
CallAuditEntry ==
  CASE call.op = "createWithAudit" ->
         CreateAudit(call.result, call.actor[1], call.actor[2], call.now)
    [] call.op = "updateWithAudit" ->
         UpdateAudit(call.record, call.args, call.id, call.actor[1], call.actor[2],
                     call.now)
    [] call.op = "deleteWithAudit" ->
         DeleteAudit(call.record, call.id, call.actor[1], call.actor[2], call.now)
    [] call.op = "updateAssignmentStatus" ->
         StatusAudit(call.id, call.record.response_status, call.args.newStatus,
                     call.args.changedBy, call.args.changedByStaff, call.now)

\* insert(auditLogs)
CallAudit ==
  /\ call.pc = "audit"
  /\ call' = [Issue(call, "audit") EXCEPT !.wAudit = Append(@, CallAuditEntry)]
  /\ auditLogs' = Through("audit", auditLogs, Append(auditLogs, CallAuditEntry))
  /\ UNCHANGED <<tbl, clock, nextId, last, tx, commits, walk, assignmentVars>>

\* deleteWithAudit: delete(table).where(eq(table.id, id)); the row read is returned
CallDelete ==
  /\ call.pc = "delete"
  /\ call' = [Issue(call, "delete") EXCEPT !.wTbl = Remove(@, call.id),
                                           !.result = call.record]
  /\ tbl' = Through("delete", tbl, Remove(tbl, call.id))
  /\ UNCHANGED <<auditLogs, clock, nextId, last, tx, commits, walk, assignmentVars>>

\* the callback returned: COMMIT publishes the transaction's view
CallCommit ==
  /\ call.pc = "commit"
  /\ tbl' = call.wTbl
  /\ auditLogs' = call.wAudit
  /\ shiftAssignments' = call.wAssignments
  /\ shiftAssignmentLogs' = call.wLogs
  /\ call' = EndCall(call, "committed", "", "none")
  /\ UNCHANGED <<clock, nextId, last, tx, commits, walk>>

\* the store fails the statement about to be issued: the callback throws and
\* db.transaction rolls back what was issued on tx
CallFault ==
  /\ call.pc \in {"insert", "update", "log", "audit", "delete"}
  /\ call' = EndCall(call, "failed", "store failure", call.pc)
  /\ UNCHANGED <<tbl, auditLogs, clock, nextId, last, tx, commits, walk,
                 assignmentVars>>

NextCalls ==
  \/ CallBegin
  \/ CallRead
  \/ CallReadNotFound
  \/ CallUnchanged
  \/ CallInsert
  \/ CallUpdate
  \/ CallLog
  \/ CallAudit
  \/ CallDelete
  \/ CallCommit
  \/ CallFault

SpecCalls == InitLedger /\ [][NextCalls]_vars

\* ---------------------------------------------------------------- audit queries
\* logAuditEvent called directly, and the two audit-log queries.  The rows of
\* this section carry the audit_logs columns the queries look at.
MaxLogged == 2

Organizations == {"o1", "o2"}
EntityTypes == {"staff", "shift"}
AuditActions == {"create", "update"}
LogActors == {<<"u1", NoActor>>, <<NoActor, "s1">>}
NoFilter == "none"
DateRanges == {<<NULL, NULL>>, <<2, NULL>>, <<NULL, 1>>}

\* the users and staff rows the actor columns reference
users == [u \in {"u1"} |-> [id |-> u, name |-> "Uma", email |-> "uma@x"]]
staff == [m \in {"s1"} |-> [id |-> m, name |-> "Sam", email |-> "sam@x"]]

\* an audit_logs row: id and created_at are column defaults
AuditRow(id, organizationId, etype, eid, action, by, byStaff, now) ==
  [id |-> id, organization_id |-> organizationId]
    @@ AuditEntry(etype, eid, action, by, byStaff, Absent, Absent, <<>>, now)

\* logAuditEvent: one insert on the pool connection, the arguments as given
LogAuditEvent ==
  \E organizationId \in Organizations, etype \in EntityTypes, action \in AuditActions,
     actor \in LogActors, now \in Nows :
    /\ Len(auditLogs) < MaxLogged
    /\ auditLogs' = Append(auditLogs,
         AuditRow(Len(auditLogs) + 1, organizationId, etype, 1, action,
                  actor[1], actor[2], now))
    /\ clock' = now
    /\ last' = [op |-> "logAuditEvent", now |-> now]
    /\ UNCHANGED <<tbl, nextId, tx, commits, walk, assignmentVars, call>>

\* relation performedByUser: users.id = audit_logs.performed_by
performedByUser(row) ==
  IF row.performed_by \in DOMAIN users THEN users[row.performed_by] ELSE NoRow

\* relation performedByStaffMember: staff.id = audit_logs.performed_by
performedByStaffMember(row) ==
  IF row.performed_by \in DOMAIN staff THEN staff[row.performed_by] ELSE NoRow

\* with: { performedByUser, performedByStaffMember }
WithActors(row) ==
  row @@ [performedByUser |-> performedByUser(row),
          performedByStaffMember |-> performedByStaffMember(row)]

\* orderBy desc(createdAt): every order of the matching rows the database may
\* produce, rows of equal created_at in any order
NewestFirst(logs, matching) ==
  {s \in [1..Cardinality(matching) -> matching] :
     /\ \A i, j \in DOMAIN s : i # j => s[i] # s[j]
     /\ \A i \in DOMAIN s : i < Len(s) =>
          logs[s[i]].created_at >= logs[s[i + 1]].created_at}

\* limit
Limit(s, limit) == SubSeq(s, 1, IF Len(s) < limit THEN Len(s) ELSE limit)

\* findMany({ where, orderBy, limit, with }) on audit_logs
FindMany(logs, matching, limit) ==
  {[k \in DOMAIN Limit(s, limit) |-> WithActors(logs[s[k]])] :
     s \in NewestFirst(logs, matching)}

DefaultEntityLimit == 50
DefaultOrganizationLimit == 100

\* getAuditLogsForEntity: the possible results
getAuditLogsForEntity(logs, entityType, entityId, limit) ==
  FindMany(logs,
           {k \in DOMAIN logs : /\ logs[k].entity_type = entityType
                                /\ logs[k].entity_id = entityId},
           limit)

\* getOrganizationAuditLogs: the possible results; the conditions are the
\* organization and the entity type and action when given
getOrganizationAuditLogs(logs, organizationId, startDate, endDate, entityType, action, limit) ==
  FindMany(logs,
           {k \in DOMAIN logs :
              /\ logs[k].organization_id = organizationId
              /\ entityType # NoFilter => logs[k].entity_type = entityType
              /\ action # NoFilter => logs[k].action = action},
           limit)

GetAuditLogsForEntity ==
  \E entityType \in EntityTypes, limit \in {DefaultEntityLimit, 1} :
    \E ret \in getAuditLogsForEntity(auditLogs, entityType, 1, limit) :
      /\ last' = [op |-> "getAuditLogsForEntity", entityType |-> entityType,
                  entityId |-> 1, limit |-> limit, ret |-> ret]
      /\ UNCHANGED <<tbl, auditLogs, clock, nextId, tx, commits, walk,
                     assignmentVars, call>>

GetOrganizationAuditLogs ==
  \E organizationId \in Organizations, range \in DateRanges,
     entityType \in {NoFilter, "staff"}, action \in {NoFilter, "create"},
     limit \in {DefaultOrganizationLimit, 1} :
    \E ret \in getOrganizationAuditLogs(auditLogs, organizationId, range[1], range[2],
                                        entityType, action, limit) :
      /\ last' = [op |-> "getOrganizationAuditLogs",
                  organizationId |-> organizationId,
                  startDate |-> range[1], endDate |-> range[2],
                  entityType |-> entityType, action |-> action,
                  limit |-> limit, ret |-> ret]
      /\ UNCHANGED <<tbl, auditLogs, clock, nextId, tx, commits, walk,
                     assignmentVars, call>>

NextQueries ==
  \/ LogAuditEvent
  \/ GetAuditLogsForEntity
  \/ GetOrganizationAuditLogs

SpecQueries == Init /\ [][NextQueries]_vars

\* ---------------------------------------------------------------- scope
\* status changes and the organization query together: the log holds an entry
\* of organization o1 and the 'create' entry of assignment 2 (shift_assignments
\* has no organization column, so that entry has none either)
InitScope ==
  LET created == DefaultAssignment(2, 1) IN
  /\ tbl = <<>>
  /\ auditLogs = <<AuditRow(1, "o1", "staff", 1, "create", "u1", NoActor, 1),
                   AuditEntry("shift_assignment", 2, "create", "u1", NoActor,
                              Absent, created, Absent, 1)
                     @@ [organization_id |-> NoOrganization]>>
  /\ clock = 1
  /\ nextId = 3
  /\ last = [op |-> "none"]
  /\ tx = [t \in Txs |-> IdleTx]
  /\ commits = 0
  /\ walk = IdleWalk
  /\ shiftAssignments = Put(<<>>, created)
  /\ shiftAssignmentLogs = <<>>
  /\ call = IdleCall

NextScope ==
  \/ UpdateAssignmentStatus
  \/ UpdateAssignmentStatusUnchanged
  \/ GetOrganizationAuditLogs

SpecScope == InitScope /\ [][NextScope]_vars

\* ---------------------------------------------------------------- users
\* The same operations on the users table, whose email column is unique
\* (tbl holds the users rows here).  An insert the constraint rejects throws,
\* and the transaction around it rolls back.

\* users.email: notNull().unique()
UniqueEmail(t, row) == \A j \in DOMAIN t : t[j].email # row.email

\* createWithAudit({ table: users, data })
CreateUserWithAudit ==
  \E values \in {[name |-> "x", email |-> "e"], [name |-> "x", email |-> "f"]},
     actor \in Actors, now \in Nows :
    /\ nextId <= MaxRows
    /\ Len(auditLogs) < MaxAudit
    /\ LET created == DefaultRow(nextId, values, now) IN
       IF UniqueEmail(tbl, created)
         THEN /\ tbl' = Put(tbl, created)
              /\ auditLogs' = Append(auditLogs,
                   [CreateAudit(created, actor[1], actor[2], now)
                      EXCEPT !.entity_type = getEntityType("users")])
              /\ last' = Call("createWithAudit", created.id, values, TRUE, "", created, now)
              /\ nextId' = nextId + 1
         ELSE /\ last' = Call("createWithAudit", NULL, values, FALSE,
                              "unique constraint", NoRow, now)
              /\ UNCHANGED <<tbl, auditLogs, nextId>>
    /\ clock' = now
    /\ UNCHANGED <<tx, commits, walk, assignmentVars, call>>

\* createNewVersion({ table: users, currentId, updates }): the successor is
\* inserted while the retired predecessor still holds its email
CreateNewUserVersion ==
  \E currentId \in Ids, updates \in {<<>>, [name |-> "y"], [email |-> "f"]},
     actor \in Actors, now \in Nows :
    LET current == FindCurrentById(tbl, currentId) IN
    /\ current # NoRow
    /\ nextId <= MaxRows
    /\ Len(auditLogs) < MaxAudit
    /\ LET retired == Put(tbl, RetireRow(tbl[currentId], now))
           newVersion == NewVersionRow(current, updates, nextId, currentId, now) IN
       IF UniqueEmail(retired, newVersion)
         THEN /\ tbl' = Put(retired, newVersion)
              /\ auditLogs' = Append(auditLogs,
                   [NewVersionAudit(current, updates, newVersion, actor[1], actor[2], now)
                      EXCEPT !.entity_type = getEntityType("users")])
              /\ last' = Call("createNewVersion", currentId, updates, TRUE, "",
                              newVersion, now)
              /\ nextId' = nextId + 1
         ELSE /\ last' = Call("createNewVersion", currentId, updates, FALSE,
                              "unique constraint", NoRow, now)
              /\ UNCHANGED <<tbl, auditLogs, nextId>>
    /\ clock' = now
    /\ UNCHANGED <<tx, commits, walk, assignmentVars, call>>

NextUsers ==
  \/ CreateUserWithAudit
  \/ CreateNewUserVersion
  \/ CreateNewVersionNotFound

SpecUsers == Init /\ [][NextUsers]_vars

\* ---------------------------------------------------------------- tables
\* createNewVersion on each of the versioned tables: a row carries the name of
\* the table it lives in, and the caller passes that table (updateStaffAddress
\* passes staffAddresses).
VersionedTables ==
  {"organizations", "users", "roles", "staff", "staff_addresses", "shifts"}

InitTables ==
  /\ \E table \in VersionedTables :
       tbl = Put(<<>>, DefaultRow(1, [name |-> "x", email |-> "e"], 1)
                         @@ [table |-> table])
  /\ auditLogs = <<>>
  /\ clock = 1
  /\ nextId = 2
  /\ last = [op |-> "none"]
  /\ tx = [t \in Txs |-> IdleTx]
  /\ commits = 0
  /\ walk = IdleWalk
  /\ shiftAssignments = <<>>
  /\ shiftAssignmentLogs = <<>>
  /\ call = IdleCall

\* createNewVersion({ table, currentId, updates }): entityType is
\* getEntityType(table._.name); updates is Partial<T> and can name a version
\* column as well
CreateNewVersionIn ==
  \E currentId \in Ids, updates \in Updates \cup {[is_current |-> FALSE]},
     actor \in Actors, now \in Nows :
    LET current == FindCurrentById(tbl, currentId) IN
    /\ current # NoRow
    /\ nextId <= MaxRows
    /\ Len(auditLogs) < MaxAudit
    /\ LET newVersion == NewVersionRow(current, updates, nextId, currentId, now) IN
       \* on users an insert the unique email rejects rolls the call back
       /\ current.table = "users" => UniqueEmail(tbl, newVersion)
       /\ tbl' = Put(Put(tbl, RetireRow(tbl[currentId], now)), newVersion)
       /\ auditLogs' = Append(auditLogs,
            [NewVersionAudit(current, updates, newVersion, actor[1], actor[2], now)
               EXCEPT !.entity_type = getEntityType(current.table)])
       /\ last' = Call("createNewVersion", currentId, updates, TRUE, "", newVersion, now)
    /\ nextId' = nextId + 1
    /\ clock' = now
    /\ UNCHANGED <<tx, commits, walk, assignmentVars, call>>

SpecTables == InitTables /\ [][CreateNewVersionIn]_vars

\* ---------------------------------------------------------------- status handlers
\* updateAssignmentStatus in two concurrent handlers, each taking one call: the
\* row is read on db before the transaction opens; inside it the UPDATE holds
\* the row's lock until COMMIT, which publishes the row, the log row and the
\* audit entry together.
IdleStatus ==
  [pc |-> "idle", id |-> NULL, args |-> <<>>, record |-> NoRow, now |-> NULL,
   outcome |-> "none"]

InitStatus ==
  LET created == DefaultAssignment(1, 1) IN
  /\ tbl = <<>>
  /\ auditLogs = <<AuditEntry("shift_assignment", 1, "create", "u1", NoActor,
                              Absent, created, Absent, 1)
                     @@ [organization_id |-> NoOrganization]>>
  /\ clock = 1
  /\ nextId = 2
  /\ last = [op |-> "none"]
  /\ tx = [t \in Txs |-> IdleStatus]
  /\ commits = 0
  /\ walk = IdleWalk
  /\ shiftAssignments = Put(<<>>, created)
  /\ shiftAssignmentLogs = <<>>
  /\ call = IdleCall

\* a handler receives an updateAssignmentStatus call
StatusBegin(t) ==
  \E assignmentId \in {1, 2}, newStatus \in ResponseStatuses,
     message \in CallMessages, by \in CallChangedBys :
    /\ tx[t].pc = "idle"
    /\ tx' = [tx EXCEPT ![t] =
         [IdleStatus EXCEPT !.pc = "read", !.id = assignmentId,
                            !.args = StatusArgs(newStatus, message, by)]]
    /\ UNCHANGED <<tbl, auditLogs, clock, nextId, last, commits, walk,
                   assignmentVars, call>>

\* findFirst on db: the committed row; not found throws, the status the row
\* already has returns it; otherwise previousStatus is kept and the
\* transaction opens
StatusRead(t) ==
  LET currentAssignment == FindById(shiftAssignments, tx[t].id) IN
  /\ tx[t].pc = "read"
  /\ tx' = [tx EXCEPT ![t] =
       IF currentAssignment = NoRow
         THEN [@ EXCEPT !.pc = "done", !.outcome = "not_found"]
       ELSE IF IsSelfTransition(currentAssignment.response_status, @.args.newStatus)
         THEN [@ EXCEPT !.pc = "done", !.outcome = "unchanged",
                        !.record = currentAssignment]
       ELSE [@ EXCEPT !.pc = "update", !.record = currentAssignment]]
  /\ UNCHANGED <<tbl, auditLogs, clock, nextId, last, commits, walk,
                 assignmentVars, call>>

\* 1. UPDATE ... WHERE id = assignmentId: waits while another open transaction
\* holds the row's lock
StatusUpdate(t) ==
  \E now \in Nows :
    /\ tx[t].pc = "update"
    /\ \A o \in Txs \ {t} : ~(tx[o].pc = "commit" /\ tx[o].id = tx[t].id)
    /\ tx' = [tx EXCEPT ![t].pc = "commit", ![t].now = now]
    /\ clock' = now
    /\ UNCHANGED <<tbl, auditLogs, nextId, last, commits, walk, assignmentVars, call>>

\* 2. and 3. the log row and the audit entry, then COMMIT: the row as the UPDATE
\* found it with the new status, and both inserts, become visible together
StatusCommit(t) ==
  LET h == tx[t]
      previousStatus == h.record.response_status
  IN
  /\ h.pc = "commit"
  /\ shiftAssignments' = Put(shiftAssignments,
       SetStatus(shiftAssignments[h.id], h.args.newStatus, h.args.message, h.now))
  /\ shiftAssignmentLogs' = Append(shiftAssignmentLogs,
       StatusLogEntry(h.id, previousStatus, h.args.newStatus, h.args.changedBy,
                      h.args.changedByStaff, h.args.message, h.now))
  /\ auditLogs' = Append(auditLogs,
       StatusAudit(h.id, previousStatus, h.args.newStatus, h.args.changedBy,
                   h.args.changedByStaff, h.now))
  /\ commits' = commits + 1
  /\ tx' = [tx EXCEPT ![t].pc = "done", ![t].outcome = "committed"]
  /\ UNCHANGED <<tbl, clock, nextId, last, walk, call>>

NextStatus ==
  \E t \in Txs :
    \/ StatusBegin(t)
    \/ StatusRead(t)
    \/ StatusUpdate(t)
    \/ StatusCommit(t)

SpecStatus == InitStatus /\ [][NextStatus]_vars

\* ---------------------------------------------------------------- delete handlers
\* deleteWithAudit in two concurrent handlers, each taking one call inside
\* db.transaction at read-committed isolation, from the store of InitTx.  The
\* handler's record keeps the row read in current and the buffered audit entry
\* in audit; retired says the DELETE was issued and holds the row's lock.

\* a handler receives a deleteWithAudit call and opens its transaction
DeleteBegin(t) ==
  \E id \in {1, 2}, actor \in Actors :
    /\ tx[t].pc = "idle"
    /\ tx' = [tx EXCEPT ![t] =
         [IdleTx EXCEPT !.pc = "read", !.currentId = id, !.actor = actor,
                        !.startTbl = tbl, !.startAudit = auditLogs,
                        !.startCommits = commits]]
    /\ UNCHANGED <<tbl, auditLogs, clock, nextId, last, commits, walk, assignmentVars, call>>

\* findFirst of the row among the committed rows; nothing found throws
DeleteRead(t) ==
  LET record == FindById(tbl, tx[t].currentId) IN
  /\ tx[t].pc = "read"
  /\ tx' = [tx EXCEPT ![t] =
       IF record = NoRow THEN Ended(@, "not_found")
       ELSE [@ EXCEPT !.pc = "audit", !.current = record]]
  /\ UNCHANGED <<tbl, auditLogs, clock, nextId, last, commits, walk, assignmentVars, call>>

\* the 'delete' audit entry, inserted before the delete
DeleteLog(t) ==
  \E now \in Nows :
    /\ tx[t].pc = "audit"
    /\ tx' = [tx EXCEPT ![t].pc = "delete", ![t].now = now,
                        ![t].audit = DeleteAudit(tx[t].current, tx[t].currentId,
                                                 tx[t].actor[1], tx[t].actor[2], now)]
    /\ clock' = now
    /\ UNCHANGED <<tbl, auditLogs, nextId, last, commits, walk, assignmentVars, call>>

\* DELETE ... WHERE id: waits for the row's lock; a row already gone makes it
\* delete nothing, which is no error
DeleteRow(t) ==
  /\ tx[t].pc = "delete"
  /\ ~LockedByOther(t, tx[t].currentId)
  /\ tx' = [tx EXCEPT ![t].pc = "commit", ![t].retired = TRUE]
  /\ UNCHANGED <<tbl, auditLogs, clock, nextId, last, commits, walk, assignmentVars, call>>

\* the callback returns the row it read; COMMIT publishes the audit entry and
\* the deletion
DeleteCommit(t) ==
  /\ tx[t].pc = "commit"
  /\ tbl' = Remove(tbl, tx[t].currentId)
  /\ auditLogs' = Append(auditLogs, tx[t].audit)
  /\ commits' = commits + 1
  /\ tx' = [tx EXCEPT ![t] = Ended(tx[t], "committed")]
  /\ UNCHANGED <<clock, nextId, last, walk, assignmentVars, call>>

NextDeletes ==
  \E t \in Txs :
    \/ DeleteBegin(t)
    \/ DeleteRead(t)
    \/ DeleteLog(t)
    \/ DeleteRow(t)
    \/ DeleteCommit(t)

SpecDeletes == InitTx /\ [][NextDeletes]_vars

\* ---------------------------------------------------------------- concurrent reads
\* getCurrentVersion query by query (in variable call) while the two handlers of
\* SpecTx commit createNewVersion transactions; each query sees the rows
\* committed when it runs.

\* faulty variant: the row found first is returned whatever its is_current
CurrentStep_FirstFound(t, c) ==
  IF c.pc = "version"
    THEN {[c EXCEPT !.pc = "done", !.result = FindById(t, c.currentId)]}
    ELSE {[c EXCEPT !.pc = "done", !.result = c.version]}

\* one query of the loop of getCurrentVersion and what follows it; c is the
\* call's state, the result is every state the query can lead to
CurrentStep(t, c) ==
  IF c.pc = "version"
    THEN LET version == FindById(t, c.currentId) IN
         IF version = NoRow THEN {[c EXCEPT !.pc = "done", !.result = NoRow]}
         ELSE IF version.is_current
           THEN {[c EXCEPT !.pc = "done", !.result = version]}
         ELSE {[c EXCEPT !.pc = "newer", !.version = version]}
    ELSE IF ReferencedBy(t, c.currentId) = {}
           THEN {[c EXCEPT !.pc = "done", !.result = c.version]}
           ELSE {[c EXCEPT !.pc = "version", !.currentId = newer] :
                   newer \in ReferencedBy(t, c.currentId)}

\* the call: currentId = originalId, current = null
CurrentBegin ==
  \E originalId \in DOMAIN tbl :
    /\ call.pc = "idle"
    /\ call' = [pc |-> "version", originalId |-> originalId, currentId |-> originalId,
                version |-> NoRow, result |-> NoRow, startTbl |-> tbl]
    /\ UNCHANGED <<tbl, auditLogs, clock, nextId, last, tx, commits, walk, assignmentVars>>

CurrentIterate ==
  /\ call.pc \in {"version", "newer"}
  /\ \E c \in CurrentStep(tbl, call) : call' = c
  /\ UNCHANGED <<tbl, auditLogs, clock, nextId, last, tx, commits, walk, assignmentVars>>

NextReadTx ==
  \/ NextTx
  \/ CurrentBegin
  \/ CurrentIterate

SpecReadTx == InitTx /\ [][NextReadTx]_vars

\* ---------------------------------------------------------------- chains
RECURSIVE Ancestors(_, _, _)
\* i and the rows reached from it over previous_version_id, within n steps
Ancestors(t, i, n) ==
  IF n = 0 \/ i \notin DOMAIN t THEN {}
  ELSE {i} \cup Ancestors(t, t[i].previous_version_id, n - 1)

Chain(t, i) == Ancestors(t, i, Cardinality(DOMAIN t))

\* the rows connected to i by previous_version_id edges
Lineage(t, i) == {j \in DOMAIN t : Chain(t, i) \cap Chain(t, j) # {}}

OneCurrentPerLineage(t) ==
  \A i \in DOMAIN t : Cardinality({j \in Lineage(t, i) : t[j].is_current}) = 1

NoBranching(t) == \A i \in DOMAIN t : Cardinality(ReferencedBy(t, i)) <= 1

Acyclic(t) ==
  \A i \in DOMAIN t : i \notin Chain(t, t[i].previous_version_id)

\* a current row is referenced by no row and its path ends at a root
CurrentIsHead(t) ==
  \A i \in DOMAIN t : t[i].is_current =>
    /\ ReferencedBy(t, i) = {}
    /\ \A j \in Chain(t, i) :
         t[j].previous_version_id = NULL \/ t[j].previous_version_id \in DOMAIN t

ChainIntegrity(t) ==
  /\ OneCurrentPerLineage(t)
  /\ NoBranching(t)
  /\ Acyclic(t)
  /\ CurrentIsHead(t)

\* the documented point-in-time query (state at a specific date):
\* valid_from <= t AND (valid_to IS NULL OR valid_to >= t)
PointInTime(row, t) ==
  /\ row.valid_from <= t
  /\ row.valid_to = NULL \/ row.valid_to >= t

\* ---------------------------------------------------------------- claims

\* C1: after any sequence of createWithAudit, createNewVersion, updateWithAudit
\* and deleteWithAudit every lineage has exactly one current row, no row is the
\* predecessor of two rows, the edges are acyclic and the current row heads a
\* path ending at a root.
C1_ChainIntegrity == ChainIntegrity(tbl)

NewVersionCall == last.op = "createNewVersion"

\* C4: a successful createNewVersion(A, U) retires A at now and inserts exactly
\* one fresh row B that succeeds A, is current from now on, keeps A's created_at
\* and carries A's domain fields overlaid with U.
C4_NewVersionRow ==
  (NewVersionCall /\ last.ok) =>
    LET A == last.preTbl[last.id]
        B == last.ret
        U == last.updates
    IN /\ tbl[A.id].is_current = FALSE
       /\ tbl[A.id].valid_to = last.now
       /\ tbl[A.id].valid_to # NULL
       /\ B.id \notin DOMAIN last.preTbl
       /\ DOMAIN tbl = DOMAIN last.preTbl \cup {B.id}
       /\ tbl[B.id] = B
       /\ B.previous_version_id = A.id
       /\ B.valid_from = last.now
       /\ B.valid_to = NULL
       /\ B.is_current = TRUE
       /\ B.created_at = A.created_at
       /\ \A f \in DomainFields : B[f] = IF f \in DOMAIN U THEN U[f] ELSE A[f]

\* a successor that changed a field and was created after its lineage's root
C4_Witness ==
  /\ NewVersionCall /\ last.ok
  /\ last.updates # <<>>
  /\ last.ret.name # last.preTbl[last.id].name
  /\ last.ret.created_at # last.now

\* C5: createNewVersion on an id whose row is absent or already retired fails
\* with the not-found error and writes nothing.
C5_NotCurrentFails ==
  (NewVersionCall /\ (last.id \notin DOMAIN last.preTbl
                        \/ ~last.preTbl[last.id].is_current)) =>
    /\ ~last.ok
    /\ last.err = "Current version not found"
    /\ tbl = last.preTbl
    /\ auditLogs = last.preAudit

\* the call named a retired row
C5_Witness ==
  /\ NewVersionCall /\ ~last.ok
  /\ last.id \in DOMAIN tbl
  /\ ~tbl[last.id].is_current

\* C6: a successful createNewVersion appends exactly one audit entry: action
\* 'update', entity id the new row's id, changed fields the keys of the updates,
\* before-snapshot the retired row on those keys, after-snapshot the updates.
C6_NewVersionAudit ==
  (NewVersionCall /\ last.ok) =>
    LET e == auditLogs[Len(auditLogs)]
        U == last.updates
    IN /\ Len(auditLogs) = Len(last.preAudit) + 1
       /\ SubSeq(auditLogs, 1, Len(last.preAudit)) = last.preAudit
       /\ e.action = "update"
       /\ e.entity_id = last.ret.id
       /\ e.entity_id # last.id
       /\ e.changed_fields = DOMAIN U
       /\ e.old_values = [f \in DOMAIN U |-> last.preTbl[last.id][f]]
       /\ e.new_values = U

\* a successor whose updates name one field out of two
C6_Witness ==
  /\ NewVersionCall /\ last.ok
  /\ DOMAIN last.updates = {"name"}
  /\ auditLogs[Len(auditLogs)].old_values # auditLogs[Len(auditLogs)].new_values

HistoryCall == last.op = "getEntityHistory"
RowIds(s) == {s[i].id : i \in 1..Len(s)}

\* C7: started from any row of a lineage, getEntityHistory returns every row of
\* that lineage.
C7_HistoryComplete ==
  (HistoryCall /\ last.id \in DOMAIN tbl) => RowIds(last.ret) = Lineage(tbl, last.id)

\* C8: the sequence getEntityHistory returns is ordered by valid_from descending
\* and holds no row twice.
C8_HistorySorted ==
  HistoryCall =>
    \A i, j \in 1..Len(last.ret) :
      i < j => /\ last.ret[i].valid_from >= last.ret[j].valid_from
               /\ last.ret[i].id # last.ret[j].id

\* a history of three versions created at two instants
C8_Witness ==
  /\ HistoryCall
  /\ Len(last.ret) = 3
  /\ last.ret[1].valid_from > last.ret[3].valid_from

CurrentCall == last.op = "getCurrentVersion"

\* C10: in a lineage built by createWithAudit and sequential createNewVersion
\* calls, getCurrentVersion from any row returns the lineage's one current row.
C10_CurrentResolved ==
  (CurrentCall /\ last.id \in DOMAIN tbl) =>
    /\ last.ret # NoRow
    /\ last.ret = tbl[last.ret.id]
    /\ last.ret.is_current
    /\ {j \in Lineage(tbl, last.id) : tbl[j].is_current} = {last.ret.id}

\* resolved from the root of a three-version lineage
C10_Witness ==
  /\ CurrentCall
  /\ last.id \in DOMAIN tbl
  /\ tbl[last.id].previous_version_id = NULL
  /\ Cardinality(Lineage(tbl, last.id)) = 3
  /\ last.ret.id # last.id

\* C2: two concurrent createNewVersion transactions on the same currentId never
\* leave two current rows in the lineage, two successors of the same row, or a
\* retired row whose valid_to a second retirement overwrote (every successor
\* starts at the instant its predecessor was retired).
C2_SerializedRetirement ==
  /\ \A i \in DOMAIN tbl : Cardinality({j \in Lineage(tbl, i) : tbl[j].is_current}) <= 1
  /\ NoBranching(tbl)
  /\ \A i \in DOMAIN tbl : \A j \in ReferencedBy(tbl, i) : tbl[j].valid_from = tbl[i].valid_to

FailedAfterRetire(t) ==
  /\ tx[t].pc = "done"
  /\ tx[t].outcome = "failed"
  /\ commits = tx[t].startCommits

\* C3: a createNewVersion that fails at the insert of the new row or at the audit
\* insert leaves the originally current row current with valid_to null, no new
\* row and no new audit entry (no other transaction having committed meanwhile).
C3_FaultRollsBack ==
  \A t \in Txs : FailedAfterRetire(t) =>
    /\ tbl = tx[t].startTbl
    /\ auditLogs = tx[t].startAudit
    /\ tbl[tx[t].currentId].is_current = TRUE
    /\ tbl[tx[t].currentId].valid_to = NULL

\* the audit insert failed, after the retirement and the insert of the new row
C3_Witness ==
  \E t \in Txs : FailedAfterRetire(t) /\ tx[t].faultAt = "audit"

\* C9: getEntityHistory terminates for every store state and every start id,
\* a chain whose previous_version_id edges form a cycle included.
C9_HistoryTerminates == (walk.pc = "loop") ~> (walk.pc = "done")

StatusCall == last.op = "updateAssignmentStatus"

\* a successful updateAssignmentStatus call to a status other than the row's
StatusChanged ==
  /\ StatusCall /\ last.ok
  /\ last.updates.newStatus # last.preAssignments[last.id].response_status

\* C11: a successful updateAssignmentStatus to a different status adds exactly one
\* status-log row and exactly one audit entry, both naming the assignment id and
\* both carrying the caller's user actor and staff actor.
C11_DualLog ==
  StatusChanged =>
    LET l == shiftAssignmentLogs[Len(shiftAssignmentLogs)]
        e == auditLogs[Len(auditLogs)]
    IN /\ Len(shiftAssignmentLogs) = Len(last.preLogs) + 1
       /\ SubSeq(shiftAssignmentLogs, 1, Len(last.preLogs)) = last.preLogs
       /\ Len(auditLogs) = Len(last.preAudit) + 1
       /\ SubSeq(auditLogs, 1, Len(last.preAudit)) = last.preAudit
       /\ l.assignment_id = last.id
       /\ e.entity_id = last.id
       /\ l.changed_by = last.updates.changedBy
       /\ e.performed_by = last.updates.changedBy
       /\ l.changed_by_staff = last.updates.changedByStaff
       /\ e.performed_by_staff = last.updates.changedByStaff

\* a staff member answered their own invitation
C11_Witness ==
  /\ StatusChanged
  /\ last.updates.changedBy = NoActor
  /\ last.updates.changedByStaff = "s1"

C14_AnyTransition ==
  (StatusCall /\ last.id \in DOMAIN last.preAssignments
     /\ last.updates.newStatus # last.preAssignments[last.id].response_status) =>
    /\ last.ok
    /\ last.id \in DOMAIN shiftAssignments
    /\ shiftAssignments[last.id].response_status = last.updates.newStatus

\* an answered assignment was set back to pending
C14_Witness ==
  /\ StatusCall /\ last.ok
  /\ last.preAssignments[last.id].response_status \in {"accepted", "declined"}
  /\ last.updates.newStatus = "pending"
  /\ shiftAssignments[last.id].response_status = "pending"

\* C17: a committed audit entry or status-log row is never deleted and never
\* changes: each log only grows at its end.
C17_LogsAppendOnly ==
  [][/\ Len(auditLogs') >= Len(auditLogs)
     /\ SubSeq(auditLogs', 1, Len(auditLogs)) = auditLogs
     /\ Len(shiftAssignmentLogs') >= Len(shiftAssignmentLogs)
     /\ SubSeq(shiftAssignmentLogs', 1, Len(shiftAssignmentLogs)) = shiftAssignmentLogs
    ]_vars

\* the action kind of the audit entry each operation writes
ActionOf(op) ==
  CASE op = "createWithAudit" -> "create"
    [] op = "updateWithAudit" -> "update"
    [] op = "deleteWithAudit" -> "delete"
    [] op = "createNewVersion" -> "update"
    [] op = "updateAssignmentStatus" -> "status_change"

\* the last call wrote: it succeeded and was not a self-transition
Wrote ==
  /\ last.ok
  /\ last.op = "updateAssignmentStatus" =>
       last.updates.newStatus # last.preAssignments[last.id].response_status

CallDone(op) == call.pc = "done" /\ call.op = op
Committed(op) == CallDone(op) /\ call.outcome = "committed"

\* the statements the call issued, and whether all of them went through tx
IssuedNames == [i \in 1..Len(call.issued) |-> call.issued[i][1]]
AllOnTx == \A i \in 1..Len(call.issued) : call.issued[i][2] = "tx"

\* the committed store is as it was when the call started
StoreAsAtStart ==
  /\ tbl = call.startTbl
  /\ auditLogs = call.startAudit
  /\ shiftAssignments = call.startAssignments
  /\ shiftAssignmentLogs = call.startLogs

\* C12: updateAssignmentStatus with the status the assignment already has returns
\* the row as it is, opens no transaction and issues no write: the assignment,
\* the status log and the audit log are unchanged, however often it is repeated.
C12_SelfTransitionNoop ==
  (/\ CallDone("updateAssignmentStatus")
   /\ call.id \in DOMAIN call.startAssignments
   /\ call.args.newStatus = call.startAssignments[call.id].response_status) =>
    /\ call.outcome = "unchanged"
    /\ ~call.transaction
    /\ call.issued = <<>>
    /\ call.result = call.startAssignments[call.id]
    /\ StoreAsAtStart

\* a self-transition on an assignment whose status had been changed before
C12_Witness ==
  /\ CallDone("updateAssignmentStatus")
  /\ call.outcome = "unchanged"
  /\ Len(shiftAssignmentLogs) = 1
  /\ call.result.response_status = "accepted"

\* C16: a store failure at any write of createWithAudit, updateWithAudit,
\* deleteWithAudit or updateAssignmentStatus aborts the whole transaction: the
\* entity row, the status log and the audit log are as before the call, and
\* while a call is in progress nothing of it is committed.
C16_FaultAborts ==
  /\ (call.pc = "done" /\ call.outcome = "failed") => StoreAsAtStart
  /\ call.pc \notin {"idle", "done"} => StoreAsAtStart

\* the audit insert of a status change failed after the update and the log insert
C16_Witness ==
  /\ CallDone("updateAssignmentStatus")
  /\ call.outcome = "failed"
  /\ call.faultAt = "audit"
  /\ IssuedNames = <<"update", "log">>

\* C18: a successful deleteWithAudit(id) appends a 'delete' audit entry for id
\* whose before-snapshot is the full row as read, issues that insert before the
\* physical delete in the same transaction, removes the row and returns the row
\* as read.
C18_DeleteAudited ==
  Committed("deleteWithAudit") =>
    LET e == auditLogs[Len(auditLogs)] IN
    /\ Len(auditLogs) = Len(call.startAudit) + 1
    /\ SubSeq(auditLogs, 1, Len(call.startAudit)) = call.startAudit
    /\ e.action = "delete"
    /\ e.entity_id = call.id
    /\ e.old_values = call.startTbl[call.id]
    /\ IssuedNames = <<"audit", "delete">>
    /\ call.transaction /\ AllOnTx
    /\ DOMAIN tbl = DOMAIN call.startTbl \ {call.id}
    /\ call.id \in DOMAIN call.startTbl
    /\ call.result = call.startTbl[call.id]

\* the one staff row was deleted
C18_Witness ==
  /\ Committed("deleteWithAudit")
  /\ tbl = <<>>
  /\ call.result.name = "x"

\* C19: a successful createWithAudit inserts exactly one row and appends exactly
\* one 'create' audit entry in one transaction; the entry names the created row's
\* id, its after-snapshot is the full created row with the store's defaults and
\* its before-snapshot is absent.
C19_CreateAudited ==
  Committed("createWithAudit") =>
    LET created == call.result
        e == auditLogs[Len(auditLogs)]
    IN /\ created.id \notin DOMAIN call.startTbl
       /\ DOMAIN tbl = DOMAIN call.startTbl \cup {created.id}
       /\ \A i \in DOMAIN call.startTbl : tbl[i] = call.startTbl[i]
       /\ tbl[created.id] = created
       /\ Len(auditLogs) = Len(call.startAudit) + 1
       /\ SubSeq(auditLogs, 1, Len(call.startAudit)) = call.startAudit
       /\ e.action = "create"
       /\ e.entity_id = created.id
       /\ e.new_values = tbl[created.id]
       /\ e.new_values.is_current = TRUE
       /\ e.new_values.valid_from = call.now
       /\ e.old_values = Absent
       /\ IssuedNames = <<"insert", "audit">>
       /\ call.transaction /\ AllOnTx

\* a second staff row was created, at a later instant than the first
C19_Witness ==
  /\ Committed("createWithAudit")
  /\ Cardinality(DOMAIN tbl) = 2
  /\ call.result.created_at = 2

\* the columns an in-place update must leave alone
VersionFields ==
  {"id", "previous_version_id", "valid_from", "valid_to", "is_current", "created_at"}

\* C20: updateWithAudit never inserts a row, and a successful call whose updates
\* name no version field leaves the row's id, previous_version_id, valid_from,
\* valid_to, is_current and created_at as they were: only the named fields and
\* updated_at change, and the audit entry names that same id.
C20_UpdateInPlace ==
  Committed("updateWithAudit") =>
    /\ DOMAIN tbl = DOMAIN call.startTbl
    /\ \A i \in DOMAIN tbl \ {call.id} : tbl[i] = call.startTbl[i]
    /\ auditLogs[Len(auditLogs)].entity_id = call.id
    /\ auditLogs[Len(auditLogs)].action = "update"
    /\ DOMAIN call.args \cap VersionFields = {} =>
         /\ \A f \in VersionFields : tbl[call.id][f] = call.startTbl[call.id][f]
         /\ \A f \in DomainFields :
              tbl[call.id][f] = IF f \in DOMAIN call.args THEN call.args[f]
                                ELSE call.startTbl[call.id][f]
         /\ tbl[call.id].updated_at = call.now

\* the name of a current row was changed in place at a later instant
C20_Witness ==
  /\ Committed("updateWithAudit")
  /\ DOMAIN call.args = {"name"}
  /\ tbl[call.id].name # call.startTbl[call.id].name
  /\ tbl[call.id].is_current
  /\ tbl[call.id].updated_at # call.startTbl[call.id].updated_at

\* C21: every audit-log entry and every assignment-status-log entry has at most
\* one actor reference set: the user actor or the staff actor, never both.
C21_OneActor ==
  /\ \A k \in 1..Len(auditLogs) :
       auditLogs[k].performed_by = NoActor \/ auditLogs[k].performed_by_staff = NoActor
  /\ \A k \in 1..Len(shiftAssignmentLogs) :
       \/ shiftAssignmentLogs[k].changed_by = NoActor
       \/ shiftAssignmentLogs[k].changed_by_staff = NoActor

\* the rows a query returned are newest first and no more than the limit
NewestFirstWithin(ret, limit) ==
  /\ Len(ret) <= limit
  /\ \A i \in DOMAIN ret : i < Len(ret) => ret[i].created_at >= ret[i + 1].created_at

\* C22: getOrganizationAuditLogs returns only entries of the organization that
\* satisfy every supplied filter (entity type, action, creation time within
\* the start/end dates), newest first and at most limit entries.
C22_OrganizationLogsFiltered ==
  last.op = "getOrganizationAuditLogs" =>
    /\ NewestFirstWithin(last.ret, last.limit)
    /\ \A i \in DOMAIN last.ret :
         /\ last.ret[i].organization_id = last.organizationId
         /\ last.entityType # NoFilter => last.ret[i].entity_type = last.entityType
         /\ last.action # NoFilter => last.ret[i].action = last.action
         /\ last.startDate # NULL => last.ret[i].created_at >= last.startDate
         /\ last.endDate # NULL => last.ret[i].created_at <= last.endDate

\* C23: getAuditLogsForEntity returns the entries of the given entity type and
\* id, newest first and at most limit, each with its actor resolved: a user's
\* entry carries that user's identity, a staff member's entry (staff actor
\* set, user actor null) carries that staff member's identity.
C23_EntityLogsResolved ==
  last.op = "getAuditLogsForEntity" =>
    /\ NewestFirstWithin(last.ret, last.limit)
    /\ \A i \in DOMAIN last.ret :
         LET row == last.ret[i] IN
         /\ row.entity_type = last.entityType
         /\ row.entity_id = last.entityId
         /\ row.performed_by # NoActor =>
              /\ row.performedByUser # NoRow
              /\ row.performedByUser.id = row.performed_by
         /\ (row.performed_by_staff # NoActor /\ row.performed_by = NoActor) =>
              /\ row.performedByStaffMember # NoRow
              /\ row.performedByStaffMember.id = row.performed_by_staff

\* C24: in every state reached through createWithAudit with default version
\* fields and createNewVersion, a row has is_current = TRUE exactly when its
\* valid_to is null.
C24_CurrentIffOpen ==
  \A i \in DOMAIN tbl : tbl[i].is_current <=> tbl[i].valid_to = NULL

\* a createNewVersion call has left a retired row and its open successor
C24_Witness ==
  /\ last.op = "createNewVersion"
  /\ last.ok
  /\ ~tbl[last.id].is_current
  /\ tbl[last.id].valid_to = last.now
  /\ tbl[last.ret.id].is_current
  /\ tbl[last.ret.id].valid_to = NULL

\* C25: the versioning path never physically deletes or un-retires a row: over
\* createNewVersion calls the set of row ids only grows, and a row whose
\* is_current became false keeps is_current = false and the same valid_to in
\* every later state.
C25_RetiredForGood ==
  [][\A i \in DOMAIN tbl :
       /\ i \in DOMAIN tbl'
       /\ ~tbl[i].is_current =>
            /\ ~tbl'[i].is_current
            /\ tbl'[i].valid_to = tbl[i].valid_to]_vars

\* C26: createNewVersion applied to a current row succeeds whatever domain
\* fields the updates name, also on a user row whose update leaves the email
\* unchanged: the copied successor is accepted by the table's constraints.
C26_SuccessorAccepted ==
  (/\ last.op = "createNewVersion"
   /\ last.id \in DOMAIN last.preTbl
   /\ last.preTbl[last.id].is_current) => last.ok

\* the id the call names has no row in the table the call reads
NoSuchRow ==
  IF call.op = "updateAssignmentStatus"
    THEN call.id \notin DOMAIN call.startAssignments
    ELSE call.id \notin DOMAIN call.startTbl

\* C27: updateWithAudit and deleteWithAudit called with an id that has no row,
\* and updateAssignmentStatus called with an assignment id that has no row,
\* fail with a not-found error and perform zero writes.
C27_NotFoundWritesNothing ==
  (/\ call.pc = "done"
   /\ call.op \in {"updateWithAudit", "deleteWithAudit", "updateAssignmentStatus"}
   /\ NoSuchRow) =>
    /\ call.outcome = "failed"
    /\ call.err = IF call.op = "updateAssignmentStatus"
                    THEN "Assignment not found" ELSE "Record not found"
    /\ call.issued = <<>>
    /\ StoreAsAtStart

\* a deleteWithAudit and an updateAssignmentStatus naming no row have failed
C27_Witness ==
  /\ call.pc = "done"
  /\ NoSuchRow
  /\ call.outcome = "failed"
  /\ \/ call.op = "deleteWithAudit" /\ call.err = "Record not found"
     \/ call.op = "updateAssignmentStatus" /\ call.err = "Assignment not found"
  /\ Len(auditLogs) > 2

\* C28: getEntityHistory(v) follows previous_version_id only: it returns
\* exactly v and its transitive predecessors, stops without error at a null
\* predecessor or at a predecessor id that has no row, and returns the empty
\* sequence when v has no row.
C28_HistoryBackward ==
  walk.pc = "done" =>
    /\ \A k \in DOMAIN walk.versions : walk.versions[k] = tbl[walk.versions[k].id]
    /\ {walk.versions[k].id : k \in DOMAIN walk.versions} = Chain(tbl, walk.entityId)
    /\ Len(walk.versions) = Cardinality(Chain(tbl, walk.entityId))
    /\ walk.entityId \notin DOMAIN tbl => walk.versions = <<>>

\* a walk over two rows has ended at a predecessor id that has no row
C28_Witness ==
  /\ walk.pc = "done"
  /\ Len(walk.versions) = 2
  /\ \E k \in DOMAIN walk.versions :
       /\ walk.versions[k].previous_version_id # NULL
       /\ walk.versions[k].previous_version_id \notin DOMAIN tbl

\* C29: with no concurrent writers, getCurrentVersion returns null only when
\* the given id has no row; it returns a row with is_current = false only when
\* the forward walk over retired rows reaches that row and no row references
\* it as predecessor; in every other case the returned row is current.
C29_CurrentOrDeadEnd ==
  CurrentCall =>
    /\ last.ret = NoRow => last.id \notin DOMAIN tbl
    /\ last.ret # NoRow =>
         /\ last.ret = tbl[last.ret.id]
         /\ last.id \in Chain(tbl, last.ret.id)
         /\ \A j \in Chain(tbl, last.ret.id) \ {last.ret.id} :
              last.id \in Chain(tbl, j) => ~tbl[j].is_current
         /\ ~last.ret.is_current => ReferencedBy(tbl, last.ret.id) = {}

\* the walk went forward from a retired row to a retired row nothing references
C29_Witness ==
  /\ CurrentCall
  /\ last.ret # NoRow
  /\ last.ret.id # last.id
  /\ ~last.ret.is_current
  /\ ReferencedBy(tbl, last.ret.id) = {}

\* the rows of shift_assignment_logs that are the first of their assignment
FirstLogs ==
  {k \in DOMAIN shiftAssignmentLogs :
     \A j \in 1..(k - 1) :
       shiftAssignmentLogs[j].assignment_id # shiftAssignmentLogs[k].assignment_id}

\* C30 as stated: the status-log entry written by updateAssignmentStatus for the
\* first transition of an assignment has previous status null.
C30_FirstPreviousNull ==
  \A k \in FirstLogs : shiftAssignmentLogs[k].previous_status = NoStatus

\* C30 as amended: the status-log entry written for the first transition of an
\* assignment has as previous status the status the assignment had before the
\* call, 'pending' for an assignment created with the column default; it is
\* never null.
C30_FirstPreviousPending ==
  \A k \in FirstLogs :
    /\ shiftAssignmentLogs[k].previous_status = "pending"
    /\ shiftAssignmentLogs[k].previous_status # NoStatus
    /\ shiftAssignmentLogs[k].new_status # "pending"

\* the first transition of an assignment, pending to declined, was logged
C30_Witness ==
  /\ StatusChanged
  /\ \A j \in DOMAIN last.preLogs : last.preLogs[j].assignment_id # last.id
  /\ Len(shiftAssignmentLogs) \in FirstLogs
  /\ shiftAssignmentLogs[Len(shiftAssignmentLogs)].assignment_id = last.id
  /\ shiftAssignmentLogs[Len(shiftAssignmentLogs)].new_status = "declined"

\* the audit entries of the successful transitions of assignment a
Transitions(a) ==
  {k \in DOMAIN auditLogs :
     auditLogs[k].action = "status_change" /\ auditLogs[k].entity_id = a}

\* C31: after any sequence of updateAssignmentStatus calls,
\* getAssignmentStatistics of an assignment id reports totalChanges equal to the
\* number of successful transitions of that assignment, acceptedCount and
\* declinedCount equal to the transitions into accepted and into declined,
\* changedByManagerCount and changedByStaffCount equal to the transitions with
\* a user actor and with a staff actor; it writes nothing.
C31_StatisticsCount ==
  last.op = "getAssignmentStatistics" =>
    LET t == Transitions(last.id)
        into(status) ==
          {k \in t : auditLogs[k].new_values = [response_status |-> status]}
    IN /\ last.ret.totalChanges = Cardinality(t)
       /\ last.ret.acceptedCount = Cardinality(into("accepted"))
       /\ last.ret.declinedCount = Cardinality(into("declined"))
       /\ last.ret.changedByManagerCount =
            Cardinality({k \in t : auditLogs[k].performed_by # NoActor})
       /\ last.ret.changedByStaffCount =
            Cardinality({k \in t : auditLogs[k].performed_by_staff # NoActor})
       /\ tbl = last.preTbl
       /\ auditLogs = last.preAudit
       /\ shiftAssignments = last.preAssignments
       /\ shiftAssignmentLogs = last.preLogs

\* two transitions of one assignment, one by a manager and one by a staff
\* member alone, were counted
C31_Witness ==
  /\ last.op = "getAssignmentStatistics"
  /\ last.ret.totalChanges = 2
  /\ last.ret.acceptedCount = 1
  /\ last.ret.changedByManagerCount = 1
  /\ last.ret.changedByStaffCount = 1

\* C32: every audit entry written by updateAssignmentStatus has organization
\* scope null, so getOrganizationAuditLogs returns no status_change entry
\* produced by updateAssignmentStatus, whatever the organization id.
C32_StatusChangeUnscoped ==
  /\ \A k \in DOMAIN auditLogs :
       auditLogs[k].action = "status_change" =>
         auditLogs[k].organization_id = NoOrganization
  /\ last.op = "getOrganizationAuditLogs" =>
       \A i \in DOMAIN last.ret : last.ret[i].action # "status_change"

\* the log holds a status change, and the unfiltered query on o1 returned the
\* organization's own entry only
C32_Witness ==
  /\ last.op = "getOrganizationAuditLogs"
  /\ last.organizationId = "o1"
  /\ last.entityType = NoFilter
  /\ last.action = NoFilter
  /\ \E k \in DOMAIN auditLogs : auditLogs[k].action = "status_change"
  /\ Len(last.ret) = 1

\* C33: the mapping from versioned table to audit entity type used by
\* createNewVersion is injective over the six versioned tables: an audit entry
\* tagged 'organization' comes only from a call on the organizations table,
\* also when the call comes through updateStaffAddress.
C33_OrganizationTag ==
  \A k \in DOMAIN auditLogs :
    auditLogs[k].entity_type = "organization" =>
      tbl[auditLogs[k].entity_id].table = "organizations"

\* C34: in any interleaving of concurrent updateAssignmentStatus calls on one
\* assignment, its status-log rows in commit order form a chain: each row's
\* previous_status equals the preceding row's new_status, which is the
\* assignment's committed status just before that row's update, and differs
\* from the row's own new_status.
C34_StatusChain ==
  \A k \in DOMAIN shiftAssignmentLogs :
    LET row == shiftAssignmentLogs[k]
        before == IF k = 1 THEN "pending" ELSE shiftAssignmentLogs[k - 1].new_status
    IN /\ row.previous_status = before
       /\ row.previous_status # row.new_status

\* the committed 'delete' audit entries naming row i
DeleteEntries(i) ==
  {k \in DOMAIN auditLogs :
     auditLogs[k].action = "delete" /\ auditLogs[k].entity_id = i}

\* C35: in any interleaving of two concurrent deleteWithAudit calls on the same
\* id, at most one call returns successfully and exactly one 'delete' audit
\* entry is committed for the one physical deletion of the row.
C35_OneDelete ==
  \A i \in Ids :
    /\ Cardinality({t \in Txs : tx[t].outcome = "committed" /\ tx[t].currentId = i}) <= 1
    /\ Cardinality(DeleteEntries(i)) = IF i = 1 /\ i \notin DOMAIN tbl THEN 1 ELSE 0

\* C36: while createNewVersion calls commit concurrently on a lineage, a
\* getCurrentVersion call started from any row of it returns a row that had
\* is_current = true at some moment during the call (possibly a head that is
\* stale by now); it never returns null and never a row that was already
\* retired before the call began.
C36_StaleHeadAtWorst ==
  (call.pc = "done" /\ "originalId" \in DOMAIN call) =>
    /\ call.result # NoRow
    /\ call.result.is_current
    /\ call.result.id \in DOMAIN tbl
    /\ call.result.id \in DOMAIN call.startTbl =>
         call.startTbl[call.result.id].is_current

\* the call walked forward from a row retired while it ran and returned a head
\* that has been retired since
C36_Witness ==
  /\ call.pc = "done"
  /\ "originalId" \in DOMAIN call
  /\ call.result.id # call.originalId
  /\ call.startTbl[call.originalId].is_current
  /\ ~tbl[call.result.id].is_current

C38_AfterSnapshotStored ==
  (last.op \in {"createNewVersion", "updateWithAudit"} /\ last.ok) =>
    LET entry == auditLogs[Len(auditLogs)] IN
    \A f \in entry.changed_fields :
      entry.new_values[f] = tbl[entry.entity_id][f]

\* C39: a successful createNewVersion(currentId) changes only the row with id
\* currentId, and of it only valid_to, is_current and updated_at; it inserts
\* one row in the same table and one audit entry, and leaves unchanged every
\* other row of the table, the rows of other tables (those referencing the
\* retired version included) and every existing audit entry.
C39_NewVersionFrame ==
  (last.op = "createNewVersion" /\ last.ok) =>
    /\ last.ret.id \notin DOMAIN last.preTbl
    /\ DOMAIN tbl = DOMAIN last.preTbl \cup {last.ret.id}
    /\ \A i \in DOMAIN last.preTbl \ {last.id} : tbl[i] = last.preTbl[i]
    /\ \A f \in DOMAIN last.preTbl[last.id] \ {"valid_to", "is_current", "updated_at"} :
         tbl[last.id][f] = last.preTbl[last.id][f]
    /\ shiftAssignments = last.preAssignments
    /\ shiftAssignmentLogs = last.preLogs
    /\ Len(auditLogs) = Len(last.preAudit) + 1
    /\ SubSeq(auditLogs, 1, Len(last.preAudit)) = last.preAudit

\* the version of a staff member was replaced while an assignment references
\* the retired row
C39_Witness ==
  /\ last.op = "createNewVersion"
  /\ last.ok
  /\ ~tbl[last.id].is_current
  /\ \E a \in DOMAIN shiftAssignments : shiftAssignments[a].staff_id = last.id
  /\ Len(last.preAudit) >= 2
====
